---------------------------- MODULE Spec2Model ----------------------------
(***************************************************************************)
(* A model of the query-translation and execution engine of goquery:       *)
(* the tokenizer and the literal parsers of models/mongodb.go, the          *)
(* document and relational executors, the result sanitizer, schema          *)
(* introspection, and the handlers of the database, query and signup        *)
(* requests with the records they store.                                    *)
(*                                                                         *)
(* A text is a sequence of lexemes.  The punctuation the scanners inspect   *)
(* one character at a time ({ } , : " space newline) is one lexeme per      *)
(* character; a word (an identifier, a number, a sentinel such as           *)
(* *FILTER_START) is one lexeme, because the code only ever compares a      *)
(* word whole.                                                              *)
(***************************************************************************)
EXTENDS Integers, Sequences, FiniteSets, TLC

VARIABLES
    pc,         \* position of the request or of the function under check
    content,    \* tokenizer input (block content with its wrapper stripped)
    pairs,      \* result of splitBSONPairs(content)
    stages,     \* result of splitPipelineStages(content)
    tree,       \* sanitizer input: a decoded value tree
    san,        \* the sanitizer applied: sanitizeValue or sanitizeJSONValue
    out,        \* the sanitizer applied to tree
    again,      \* the sanitizer applied to out
    db,         \* the connection descriptor (models.Database)
    gen,        \* the parts the generated text was assembled from
    code,       \* the generated text handed to ExecuteQuery
    conn,       \* the backend connection of this call: none, open, closed
    desc,       \* the parsed operation (the locals of executeMongoDBGoCode)
    issued,     \* the calls sent to the backend, in order
    store,      \* the documents the collection holds when the call arrives
    raw,        \* the rows as the driver decoded them
    returned,   \* the rows ExecuteQuery returns
    err,        \* the error ExecuteQuery returns, "" for nil
    entry,      \* one entry of a literal: its key and the text of its value
    asM,        \* parseBSONM applied to the entry written "key": value
    asD,        \* parseBSOND applied to the entry written {"key", value}
    target,     \* the backend a schema is fetched from: its kind and catalog
    fetches,    \* the results of the schema fetches so far, in order
    req,        \* the create-query request: the user and the body
    answer,     \* the content of the provider's answer
    found,      \* the connection descriptor GetDatabaseByID returned
    query,      \* the models.Query record of the request
    handed,     \* what has been handed to ExecuteQuery: descriptor and text
    resp,       \* the status of the HTTP response, 0 before it is sent
    running,    \* the backend operation running: its kind and its backend
    step,       \* the index of its next or current backend call
    live,       \* the connections, clients, row sets and cursors open
    deferred,   \* the releases deferred to the return of the operation
    expired,    \* the deadline of the operation's context has passed
    outcome,    \* how the operation returns: "", ok, error
    dreq,       \* the database request: its handler, its caller, its refresh flag
    rec,        \* the descriptor the handler holds
    saved,      \* the descriptor in the store
    steps,      \* how the calls of the handler ended
    reply,      \* the response of the database handler
    task,       \* the handler that runs the query: create or rerun
    kept,       \* the query record in the store
    rq,         \* the query record the running handler holds
    uq,         \* the query record UpdateQueryHandler holds
    late,       \* the 60 s context of the running handler has expired
    written,    \* the record as the last update of the running handler left it
    answers,    \* the statuses answered: by the running handler, by the update
    accounts,   \* the documents of the users collection: their emails, in order of insertion
    signups     \* the signup requests: email, what the lookup saw, status answered

splitVars == <<content, pairs, stages>>
sanVars == <<tree, san, out, again>>
execVars == <<db, gen, code, conn, desc, issued, store, raw, returned, err>>
entryVars == <<entry, asM, asD>>
schemaVars == <<target, fetches>>
handlerVars == <<req, answer, found, query, handed, resp>>
opVars == <<running, step, live, deferred, expired, outcome>>
databaseVars == <<dreq, rec, saved, steps, reply>>
recordVars == <<task, kept, rq, uq, late, written, answers>>
signupVars == <<accounts, signups>>
vars == <<pc, splitVars, sanVars, execVars, entryVars, schemaVars,
    handlerVars, opVars, databaseVars, recordVars, signupVars>>

\* the variables of the other functions under check
notSplit == <<sanVars, execVars, entryVars, schemaVars, handlerVars, opVars,
    databaseVars, recordVars, signupVars>>
notSanitize == <<splitVars, execVars, entryVars, schemaVars, handlerVars,
    opVars, databaseVars, recordVars, signupVars>>
notExec == <<splitVars, sanVars, entryVars, schemaVars, handlerVars, opVars,
    databaseVars, recordVars, signupVars>>
notEntry == <<splitVars, sanVars, execVars, schemaVars, handlerVars, opVars,
    databaseVars, recordVars, signupVars>>
notSchema == <<splitVars, sanVars, execVars, entryVars, handlerVars, opVars,
    databaseVars, recordVars, signupVars>>
notHandler == <<splitVars, sanVars, execVars, entryVars, schemaVars, opVars,
    databaseVars, recordVars, signupVars>>
notOp == <<splitVars, sanVars, execVars, entryVars, schemaVars, handlerVars,
    databaseVars, recordVars, signupVars>>
notDatabase == <<splitVars, sanVars, execVars, entryVars, schemaVars,
    handlerVars, opVars, recordVars, signupVars>>
notRecord == <<splitVars, sanVars, execVars, entryVars, schemaVars,
    handlerVars, opVars, databaseVars, signupVars>>
notSignup == <<splitVars, sanVars, execVars, entryVars, schemaVars,
    handlerVars, opVars, databaseVars, recordVars>>

-----------------------------------------------------------------------------
(* Bounds *)

\* longest text enumerated exhaustively for the tokenizer
MaxTextLen == 6

\* nesting depth of the value trees handed to the sanitizer
MaxDepth == 2

\* longest sequence inside a value tree
MaxSeqLen == 2

-----------------------------------------------------------------------------
(* Lexemes *)

Q == "\""
SP == " "
NL == "\n"

-----------------------------------------------------------------------------
(* package strings *)

IsSpace(r) == r \in {SP, NL, "\t"}

RECURSIVE TrimLeftSpace(_)
TrimLeftSpace(s) ==
    IF s # <<>> /\ IsSpace(Head(s)) THEN TrimLeftSpace(Tail(s)) ELSE s

RECURSIVE TrimRightSpace(_)
TrimRightSpace(s) ==
    IF s # <<>> /\ IsSpace(s[Len(s)])
    THEN TrimRightSpace(SubSeq(s, 1, Len(s) - 1))
    ELSE s

\* strings.TrimSpace
TrimSpace(s) == TrimRightSpace(TrimLeftSpace(s))

\* strings.HasPrefix
HasPrefix(s, p) == Len(s) >= Len(p) /\ SubSeq(s, 1, Len(p)) = p

\* strings.HasSuffix
HasSuffix(s, p) == Len(s) >= Len(p) /\ SubSeq(s, Len(s) - Len(p) + 1, Len(s)) = p

\* strings.TrimPrefix: removes one occurrence of the prefix, if present
TrimPrefix(s, p) == IF HasPrefix(s, p) THEN SubSeq(s, Len(p) + 1, Len(s)) ELSE s

\* strings.TrimSuffix: removes one occurrence of the suffix, if present
TrimSuffix(s, p) == IF HasSuffix(s, p) THEN SubSeq(s, 1, Len(s) - Len(p)) ELSE s

RECURSIVE TrimLeftQuotes(_)
TrimLeftQuotes(s) ==
    IF s # <<>> /\ Head(s) = Q THEN TrimLeftQuotes(Tail(s)) ELSE s

RECURSIVE TrimRightQuotes(_)
TrimRightQuotes(s) ==
    IF s # <<>> /\ s[Len(s)] = Q
    THEN TrimRightQuotes(SubSeq(s, 1, Len(s) - 1))
    ELSE s

\* strings.Trim(s, `"`): removes every leading and trailing quote
TrimQuotes(s) == TrimRightQuotes(TrimLeftQuotes(s))

\* the positions of lexeme r in s
Positions(s, r) == {i \in 1..Len(s) : s[i] = r}

Min(S) == CHOOSE m \in S : \A n \in S : m <= n

\* strings.SplitN(s, sep, 2) for a one-character separator: the text before
\* and after the first separator, or the text alone when there is none
SplitN2(s, sep) ==
    IF Positions(s, sep) = {}
    THEN <<s>>
    ELSE LET i == Min(Positions(s, sep))
         IN  <<SubSeq(s, 1, i - 1), SubSeq(s, i + 1, Len(s))>>

-----------------------------------------------------------------------------
(* splitBSONPairs / splitPipelineStages: the depth and quote tracking scan *)

\* The scan with the quote state dropped: a comma inside a quoted string at
\* depth zero splits.
RECURSIVE ScanNoQuotes(_, _, _, _, _)
ScanNoQuotes(s, i, depth, current, acc) ==
    IF i > Len(s)
    THEN IF current # <<>> THEN Append(acc, current) ELSE acc
    ELSE LET r == s[i]
         IN  IF r = "{"
             THEN ScanNoQuotes(s, i + 1, depth + 1, Append(current, r), acc)
             ELSE IF r = "}"
             THEN ScanNoQuotes(s, i + 1, depth - 1, Append(current, r), acc)
             ELSE IF r = "," /\ depth = 0
             THEN ScanNoQuotes(s, i + 1, depth, <<>>, Append(acc, current))
             ELSE ScanNoQuotes(s, i + 1, depth, Append(current, r), acc)

splitNoQuotes(s) == ScanNoQuotes(s, 1, 0, <<>>, <<>>)

\* One iteration per lexeme of the loop of splitBSONPairs; i is the loop
\* position, depth / inQuotes / current / acc the loop's locals.
RECURSIVE ScanPairs(_, _, _, _, _, _)
ScanPairs(s, i, depth, inQuotes, current, acc) ==
    IF i > Len(s)
    THEN IF current # <<>> THEN Append(acc, current) ELSE acc
    ELSE LET r == s[i]
             q == IF r = Q THEN ~inQuotes ELSE inQuotes
         IN  IF ~q /\ r = "{"
             THEN ScanPairs(s, i + 1, depth + 1, q, Append(current, r), acc)
             ELSE IF ~q /\ r = "}"
             THEN ScanPairs(s, i + 1, depth - 1, q, Append(current, r), acc)
             ELSE IF ~q /\ r = "," /\ depth = 0
             THEN ScanPairs(s, i + 1, depth, q, <<>>, Append(acc, current))
             ELSE ScanPairs(s, i + 1, depth, q, Append(current, r), acc)

splitBSONPairs(s) == ScanPairs(s, 1, 0, FALSE, <<>>, <<>>)

\* The same loop, written a second time in the source.
RECURSIVE ScanStages(_, _, _, _, _, _)
ScanStages(s, i, depth, inQuotes, current, acc) ==
    IF i > Len(s)
    THEN IF current # <<>> THEN Append(acc, current) ELSE acc
    ELSE LET r == s[i]
             q == IF r = Q THEN ~inQuotes ELSE inQuotes
         IN  IF ~q /\ r = "{"
             THEN ScanStages(s, i + 1, depth + 1, q, Append(current, r), acc)
             ELSE IF ~q /\ r = "}"
             THEN ScanStages(s, i + 1, depth - 1, q, Append(current, r), acc)
             ELSE IF ~q /\ r = "," /\ depth = 0
             THEN ScanStages(s, i + 1, depth, q, <<>>, Append(acc, current))
             ELSE ScanStages(s, i + 1, depth, q, Append(current, r), acc)

splitPipelineStages(s) == ScanStages(s, 1, 0, FALSE, <<>>, <<>>)

-----------------------------------------------------------------------------
(* Values: what the literal parsers build and what the drivers decode.     *)
(* kind is the Go dynamic type, val the payload.                           *)

NilV == [kind |-> "nil", val |-> <<>>]
StrV(s) == [kind |-> "string", val |-> s]
Int64V(n) == [kind |-> "int64", val |-> n]
Int32V(n) == [kind |-> "int32", val |-> n]
\* a float64 is named by its literal: "1.5", "NaN", "+Inf", "-Inf"
Float64V(w) == [kind |-> "float64", val |-> w]
\* bson.M (primitive.M): a function from keys to values
MapV(f) == [kind |-> "bson.M", val |-> f]
\* bson.D (primitive.D): a sequence of bson.E
DocV(d) == [kind |-> "bson.D", val |-> d]
E(k, v) == [Key |-> k, Value |-> v]

EmptyMap == <<>>

\* result[key] = value
MapPut(m, k, v) == [x \in (DOMAIN m) \cup {k} |-> IF x = k THEN v ELSE m[x]]

-----------------------------------------------------------------------------
(* package strconv, on the numerals of the lexicon *)

\* numerals of an int64 outside the signed 32-bit range
WideWords == {"3000000000", "4294967297"}

IntWords == {"0", "1", "-1", "5", "-5", "10", "18", "100"} \cup WideWords

\* the width of an int32
Int32Bits == 32

\* one limb is half an int32
Limb == 2 ^ (Int32Bits \div 2)

\* An int64 in two's complement, as four limbs of 16 bits, most significant
\* first.
WideLimbs(w) ==
    CASE w = "3000000000" -> <<0, 0, 45776, 24064>>
      [] w = "4294967297" -> <<0, 1, 0, 1>>

\* the limbs of an integer of the signed 32-bit range, sign-extended
LimbsOfInt(n) ==
    IF n >= 0 THEN <<0, 0, n \div Limb, n % Limb>>
    ELSE LET m == 0 - (n + 1)
         IN  <<Limb - 1, Limb - 1, Limb - 1 - (m \div Limb), Limb - 1 - (m % Limb)>>

\* the int64 strconv.ParseInt returns: a number where it is in the signed
\* 32-bit range, its limbs where it is not
IntOf(w) ==
    CASE w = "0" -> 0 [] w = "1" -> 1 [] w = "-1" -> -1 [] w = "5" -> 5
      [] w = "-5" -> -5 [] w = "10" -> 10 [] w = "18" -> 18 [] w = "100" -> 100
      [] w \in WideWords -> WideLimbs(w)

\* the same int64 as limbs, whatever its range
Int64Limbs(w) == IF w \in WideWords THEN WideLimbs(w) ELSE LimbsOfInt(IntOf(w))

\* strconv.ParseInt(s, 10, 64) succeeds
IsInt(s) == Len(s) = 1 /\ s[1] \in IntWords

\* the literals strconv.ParseFloat accepts and ParseInt does not
FloatWords == {"1.5", "NaN", "Inf"}

\* strconv.ParseFloat(s, 64) succeeds
IsFloat(s) == Len(s) = 1 /\ s[1] \in (FloatWords \cup IntWords)

FloatOf(w) == IF w = "Inf" THEN "+Inf" ELSE w

\* int32(num): the low 32 bits of the int64, read as a signed number
ToInt32(limbs) ==
    IF limbs[3] < Limb \div 2
    THEN limbs[3] * Limb + limbs[4]
    ELSE (limbs[3] - Limb) * Limb + limbs[4]

-----------------------------------------------------------------------------
(* parseBSONM *)

BsonMOpen == <<"bson.M", "{">>
BsonDOpen == <<"bson.D", "{">>
PipelineOpen == <<"mongo.Pipeline", "{">>
Close == <<"}">>

IsQuoted(s) == HasPrefix(s, <<Q>>) /\ HasSuffix(s, <<Q>>)

Ok(v) == [err |-> FALSE, val |-> v]
Fail == [err |-> TRUE, val |-> NilV]

RECURSIVE parseBSONM(_)

\* the value of one mapping-literal entry
ValueM(valueStr) ==
    IF HasPrefix(valueStr, BsonMOpen)
    THEN LET nested == parseBSONM(TrimSuffix(TrimPrefix(valueStr, BsonMOpen), Close))
         IN  IF nested.err THEN Fail ELSE Ok(nested.val)
    ELSE IF valueStr = <<"nil">> THEN Ok(NilV)
    ELSE IF IsQuoted(valueStr) THEN Ok(StrV(TrimQuotes(valueStr)))
    ELSE IF IsInt(valueStr) THEN Ok(Int64V(IntOf(valueStr[1])))
    ELSE IF IsFloat(valueStr) THEN Ok(Float64V(FloatOf(valueStr[1])))
    ELSE Ok(StrV(valueStr))

\* the loop over the pairs of parseBSONM
RECURSIVE LoopM(_, _, _)
LoopM(ps, i, result) ==
    IF i > Len(ps) THEN Ok(MapV(result))
    ELSE LET parts == SplitN2(ps[i], ":")
         IN  IF Len(parts) # 2 THEN LoopM(ps, i + 1, result)
             ELSE LET key == TrimQuotes(TrimSpace(parts[1]))
                      v   == ValueM(TrimSpace(parts[2]))
                  IN  IF v.err THEN Fail
                      ELSE LoopM(ps, i + 1, MapPut(result, key, v.val))

parseBSONM(c) ==
    LET trimmed == TrimSpace(TrimSuffix(c, <<",">>))
    IN  IF trimmed = <<>> THEN Ok(MapV(EmptyMap))
        ELSE LoopM(splitBSONPairs(trimmed), 1, EmptyMap)

-----------------------------------------------------------------------------
(* parseBSOND *)

\* The classification with the last branch of parseBSONM copied in: text
\* that is no literal is kept as a raw string instead of being refused.
ValueDKeepRaw(valueStr) ==
    IF HasPrefix(valueStr, BsonMOpen)
    THEN LET nested == parseBSONM(TrimSuffix(TrimPrefix(valueStr, BsonMOpen), Close))
         IN  IF nested.err THEN Fail ELSE Ok(nested.val)
    ELSE IF IsQuoted(valueStr) THEN Ok(StrV(TrimQuotes(valueStr)))
    ELSE IF valueStr = <<"nil">> THEN Ok(NilV)
    ELSE IF IsInt(valueStr) THEN Ok(Int32V(ToInt32(Int64Limbs(valueStr[1]))))
    ELSE IF IsFloat(valueStr) THEN Ok(Float64V(FloatOf(valueStr[1])))
    ELSE Ok(StrV(valueStr))

\* the value of one ordered-pair entry
ValueD(valueStr) ==
    IF HasPrefix(valueStr, BsonMOpen)
    THEN LET nested == parseBSONM(TrimSuffix(TrimPrefix(valueStr, BsonMOpen), Close))
         IN  IF nested.err THEN Fail ELSE Ok(nested.val)
    ELSE IF IsQuoted(valueStr) THEN Ok(StrV(TrimQuotes(valueStr)))
    ELSE IF valueStr = <<"nil">> THEN Ok(NilV)
    ELSE IF IsInt(valueStr) THEN Ok(Int32V(ToInt32(Int64Limbs(valueStr[1]))))
    ELSE IF IsFloat(valueStr) THEN Ok(Float64V(FloatOf(valueStr[1])))
    ELSE Fail

\* the loop over the pairs of parseBSOND
RECURSIVE LoopD(_, _, _)
LoopD(ps, i, result) ==
    IF i > Len(ps) THEN Ok(DocV(result))
    ELSE LET pair == TrimSpace(ps[i])
         IN  IF ~HasPrefix(pair, <<"{">>) \/ ~HasSuffix(pair, Close)
             THEN LoopD(ps, i + 1, result)
             ELSE LET inner == TrimSuffix(TrimPrefix(pair, <<"{">>), Close)
                      parts == SplitN2(inner, ",")
                  IN  IF Len(parts) # 2 THEN LoopD(ps, i + 1, result)
                      ELSE LET key == TrimQuotes(TrimSpace(parts[1]))
                               v   == ValueD(TrimSpace(parts[2]))
                           IN  IF v.err THEN Fail
                               ELSE LoopD(ps, i + 1, Append(result, E(key, v.val)))

parseBSOND(c) ==
    LET trimmed == TrimSpace(TrimSuffix(c, <<",">>))
    IN  IF trimmed = <<>> THEN Ok(DocV(<<>>))
        ELSE LoopD(splitBSONPairs(trimmed), 1, <<>>)

-----------------------------------------------------------------------------
(* executeMongoDBGoCode: locating the assignment lines and the blocks *)

NoMatch == [found |-> FALSE, text |-> <<>>]
Match(t) == [found |-> TRUE, text |-> t]

\* regexp `var <name> = "([^"]+)"`: the leftmost place where the assignment
\* is followed by at least one lexeme that is no quote, and then by a quote
FindAssign(c, name) ==
    LET prefix == <<"var", SP, name, SP, "=", SP, Q>>
        n      == Len(prefix)
        starts == {p \in 1..Len(c) :
                     /\ p + n <= Len(c)
                     /\ SubSeq(c, p, p + n - 1) = prefix
                     /\ c[p + n] # Q
                     /\ \E q \in (p + n + 1)..Len(c) : c[q] = Q}
    IN  IF starts = {} THEN NoMatch
        ELSE LET p == Min(starts)
                 q == Min({j \in (p + n + 1)..Len(c) : c[j] = Q})
             IN  Match(SubSeq(c, p + n, q - 1))

\* regexp `\*NAME_START([\s\S]*?)\*NAME_END`: the leftmost start sentinel
\* that an end sentinel follows, up to the nearest end sentinel
FindBlock(c, start, end) ==
    IF Positions(c, start) = {} THEN NoMatch
    ELSE LET i    == Min(Positions(c, start))
             ends == {j \in Positions(c, end) : j > i}
         IN  IF ends = {} THEN NoMatch
             ELSE Match(SubSeq(c, i + 1, Min(ends) - 1))

Unset == [set |-> FALSE, val |-> NilV]
SetTo(v) == [set |-> TRUE, val |-> v]

\* The content of the FILTER block is parsed with or without its wrapper.
ParseFilterBlockBare(c) ==
    LET m == FindBlock(c, "*FILTER_START", "*FILTER_END")
        inner == TrimSuffix(TrimPrefix(TrimSpace(m.text), BsonMOpen), Close)
    IN  IF m.found /\ inner # <<>> /\ ~parseBSONM(inner).err
        THEN parseBSONM(inner).val
        ELSE NilV

\* the FILTER block: nil unless a non-empty bson.M literal parses
ParseFilterBlock(c) ==
    LET m == FindBlock(c, "*FILTER_START", "*FILTER_END")
        filterContent == TrimSpace(m.text)
        inner == TrimSuffix(TrimPrefix(filterContent, BsonMOpen), Close)
    IN  IF m.found /\ HasPrefix(filterContent, BsonMOpen) /\ inner # <<>>
           /\ ~parseBSONM(inner).err
        THEN parseBSONM(inner).val
        ELSE NilV

\* the SORT block: findOptions.SetSort when a bson.D literal parses
ParseSortBlock(c) ==
    LET m == FindBlock(c, "*SORT_START", "*SORT_END")
        sortContent == TrimSpace(m.text)
        sort == parseBSOND(TrimSuffix(TrimPrefix(sortContent, BsonDOpen), Close))
    IN  IF m.found /\ HasPrefix(sortContent, BsonDOpen) /\ ~sort.err
        THEN SetTo(sort.val)
        ELSE Unset

\* A limit block that is absent or does not parse falls back to the bounded
\* default of the empty pipeline.
ParseLimitBlockDefault(c) ==
    LET m == FindBlock(c, "*LIMIT_START", "*LIMIT_END")
        limitContent == TrimSpace(m.text)
    IN  IF m.found /\ IsInt(limitContent)
        THEN SetTo(Int64V(IntOf(limitContent[1])))
        ELSE SetTo(Int64V(100))

\* the LIMIT block: findOptions.SetLimit when the content is an integer
ParseLimitBlock(c) ==
    LET m == FindBlock(c, "*LIMIT_START", "*LIMIT_END")
        limitContent == TrimSpace(m.text)
    IN  IF m.found /\ IsInt(limitContent)
        THEN SetTo(Int64V(IntOf(limitContent[1])))
        ELSE Unset

\* the PROJECTION block: findOptions.SetProjection when a bson.D literal parses
ParseProjectionBlock(c) ==
    LET m == FindBlock(c, "*PROJECTION_START", "*PROJECTION_END")
        projContent == TrimSpace(m.text)
        proj == parseBSOND(TrimSuffix(TrimPrefix(projContent, BsonDOpen), Close))
    IN  IF m.found /\ HasPrefix(projContent, BsonDOpen) /\ ~proj.err
        THEN SetTo(proj.val)
        ELSE Unset

\* the loop over the stages of the PIPELINE block
RECURSIVE LoopStages(_, _, _)
LoopStages(ss, i, pipeline) ==
    IF i > Len(ss) THEN pipeline
    ELSE LET stageContent == TrimSpace(ss[i])
             s == parseBSOND(TrimSuffix(TrimPrefix(stageContent, BsonDOpen), Close))
         IN  IF HasPrefix(stageContent, BsonDOpen) /\ ~s.err
             THEN LoopStages(ss, i + 1, Append(pipeline, s.val))
             ELSE LoopStages(ss, i + 1, pipeline)

\* the PIPELINE block: the stages that parse, in order
ParsePipelineBlock(c) ==
    LET m == FindBlock(c, "*PIPELINE_START", "*PIPELINE_END")
        pipelineContent ==
            TrimSuffix(TrimPrefix(TrimSpace(m.text), PipelineOpen), Close)
    IN  IF m.found /\ pipelineContent # <<>>
        THEN LoopStages(splitPipelineStages(pipelineContent), 1, <<>>)
        ELSE <<>>

\* Only the find branch is taken for a supported operation.
IsSupportedFindOnly(op) == op = <<"find">>

\* the operation kinds executeMongoDBGoCode has a branch for
IsSupported(op) == op \in {<<"find">>, <<"aggregate">>}

NoDesc ==
    [err |-> "", collection |-> <<>>, operation |-> <<>>, filter |-> NilV,
     sort |-> Unset, limit |-> Unset, projection |-> Unset, pipeline |-> <<>>]

ParseError(msg) == [NoDesc EXCEPT !.err = msg]

\* A missing collection line falls back to a default collection.
ExtractCollectionDefault(c) ==
    IF FindAssign(c, "collection").found
    THEN FindAssign(c, "collection")
    ELSE Match(<<"documents">>)

\* the collection assignment line
ExtractCollection(c) == FindAssign(c, "collection")

\* the operation assignment line
ExtractOperation(c) == FindAssign(c, "operation")

\* Every block of the text is parsed into the descriptor, whatever the kind.
ParseMongoCodeAllBlocks(c) ==
    [NoDesc EXCEPT !.collection = ExtractCollection(c).text,
                   !.operation = ExtractOperation(c).text,
                   !.filter = ParseFilterBlock(c),
                   !.sort = ParseSortBlock(c),
                   !.limit = ParseLimitBlock(c),
                   !.projection = ParseProjectionBlock(c),
                   !.pipeline = ParsePipelineBlock(c)]

\* The parsing half of executeMongoDBGoCode: the descriptor, or the error
\* returned before anything is sent to the backend.
ParseMongoCode(c) ==
    LET collectionMatch == ExtractCollection(c)
        operationMatch  == ExtractOperation(c)
        operationType   == operationMatch.text
    IN  IF ~collectionMatch.found
        THEN ParseError("missing collection name in generated code")
        ELSE IF ~operationMatch.found
        THEN ParseError("missing operation type in generated code")
        ELSE IF ~IsSupported(operationType)
        THEN ParseError("unsupported MongoDB operation")
        ELSE IF operationType = <<"find">>
        THEN [NoDesc EXCEPT !.collection = collectionMatch.text,
                            !.operation = operationType,
                            !.filter = ParseFilterBlock(c),
                            !.sort = ParseSortBlock(c),
                            !.limit = ParseLimitBlock(c),
                            !.projection = ParseProjectionBlock(c)]
        ELSE [NoDesc EXCEPT !.collection = collectionMatch.text,
                            !.operation = operationType,
                            !.pipeline = ParsePipelineBlock(c)]

-----------------------------------------------------------------------------
(* executeMongoDBGoCode: what is sent to the backend *)

\* the limit of the default pipeline
DefaultLimit == 100

IntV(n) == [kind |-> "int", val |-> n]

\* bson.D{{"$match", bson.M{}}}, bson.D{{"$limit", 100}}
DefaultPipeline ==
    <<DocV(<<E(<<"$match">>, MapV(EmptyMap))>>),
      DocV(<<E(<<"$limit">>, IntV(DefaultLimit))>>)>>

\* The pipeline is sent as parsed.
PipelineAsParsed(p) == p

\* an empty pipeline is replaced by the default one
EffectivePipeline(p) == IF Len(p) = 0 THEN DefaultPipeline ELSE p

NoCall ==
    [op |-> "", collection |-> <<>>, text |-> <<>>, filter |-> NilV,
     sort |-> Unset, limit |-> Unset, projection |-> Unset, pipeline |-> <<>>]

\* The find is sent with the empty filter, whatever the FILTER block holds.
FindCallNoFilter(d) ==
    [NoCall EXCEPT !.op = "find", !.collection = d.collection,
                   !.filter = MapV(EmptyMap),
                   !.sort = d.sort, !.limit = d.limit,
                   !.projection = d.projection]

\* Collection(collectionName).Find(ctx, filter, findOptions)
FindCall(d) ==
    [NoCall EXCEPT !.op = "find", !.collection = d.collection,
                   !.filter = IF d.filter = NilV THEN MapV(EmptyMap) ELSE d.filter,
                   !.sort = d.sort, !.limit = d.limit,
                   !.projection = d.projection]

\* Collection(collectionName).Aggregate(ctx, pipeline)
AggregateCall(d) ==
    [NoCall EXCEPT !.op = "aggregate", !.collection = d.collection,
                   !.pipeline = EffectivePipeline(d.pipeline)]

\* conn.QueryContext(ctx, sqlQuery)
SqlCall(q) == [NoCall EXCEPT !.op = "sql", !.text = q]

-----------------------------------------------------------------------------
(* sanitizeValue (models/mongodb.go) and sanitizeJSONValue (models/query.go) *)

\* map[string]interface{}
GoMapV(f) == [kind |-> "map", val |-> f]
\* []interface{}
SliceV(s) == [kind |-> "slice", val |-> s]
\* primitive.A
ArrV(s) == [kind |-> "primitive.A", val |-> s]
Float32V(w) == [kind |-> "float32", val |-> w]
BytesV(s) == [kind |-> "[]byte", val |-> s]

NonFinite == {"NaN", "+Inf", "-Inf"}

\* Negative infinity is reported as "Infinity".
FloatNameNoSign(f) ==
    IF f = "NaN" THEN StrV(<<"NaN">>) ELSE StrV(<<"Infinity">>)

\* the string returned for a float64 that is NaN or infinite
FloatName(f) ==
    CASE f = "NaN" -> StrV(<<"NaN">>)
      [] f = "+Inf" -> StrV(<<"Infinity">>)
      [] f = "-Inf" -> StrV(<<"-Infinity">>)

RECURSIVE sanitizeValue(_)

\* The result slice is made with the length of the input and then appended
\* to: the sanitized elements follow len(s) nil elements.
SanitizeSliceAppend(s) ==
    [i \in 1..(2 * Len(s)) |->
        IF i <= Len(s) THEN NilV ELSE sanitizeValue(s[i - Len(s)])]

\* result[i] = sanitizeValue(v) for every element of a []interface{}
SanitizeSlice(s) == [i \in 1..Len(s) |-> sanitizeValue(s[i])]

\* The three type assertions of sanitizeValue, in order: float64,
\* map[string]interface{}, []interface{}; any other dynamic type (a named
\* map or slice type such as primitive.M or primitive.A, a float32) falls
\* through and is returned as it is.
sanitizeValue(v) ==
    IF v.kind = "float64" /\ v.val \in NonFinite THEN FloatName(v.val)
    ELSE IF v.kind = "map"
    THEN GoMapV([k \in DOMAIN v.val |-> sanitizeValue(v.val[k])])
    ELSE IF v.kind = "slice" THEN SliceV(SanitizeSlice(v.val))
    ELSE v

RECURSIVE sanitizeJSONValue(_)
sanitizeJSONValue(v) ==
    IF v.kind = "float64" /\ v.val \in NonFinite THEN FloatName(v.val)
    ELSE IF v.kind = "map"
    THEN GoMapV([k \in DOMAIN v.val |-> sanitizeJSONValue(v.val[k])])
    ELSE IF v.kind = "slice"
    THEN SliceV([i \in 1..Len(v.val) |-> sanitizeJSONValue(v.val[i])])
    ELSE v

\* the sanitizer named fn
Sanitize(fn, v) ==
    IF fn = "sanitizeValue" THEN sanitizeValue(v) ELSE sanitizeJSONValue(v)

\* queryResult[key] = sanitizeValue(value) for every key of every row
MongoRows(results) ==
    [i \in 1..Len(results) |->
        [k \in DOMAIN results[i] |-> sanitizeValue(results[i][k])]]

\* executePostgresQuery's conversion of one scanned value (part_003): a byte
\* slice becomes a string, every other value is stored as scanned
PgValue(v) == IF v.kind = "[]byte" THEN StrV(v.val) ELSE v

\* row[col] = ... for every column of every row
PgRows(results) ==
    [i \in 1..Len(results) |->
        [k \in DOMAIN results[i] |-> PgValue(results[i][k])]]

-----------------------------------------------------------------------------
(* Tokenizer inputs *)

SplitAlphabet == {"a", ",", "{", "}", Q}

RECURSIVE TextsOfLen(_)
TextsOfLen(n) ==
    IF n = 0 THEN {<<>>}
    ELSE {Append(t, r) : t \in TextsOfLen(n - 1), r \in SplitAlphabet}

RECURSIVE TextsUpTo(_)
TextsUpTo(n) == IF n = 0 THEN {<<>>} ELSE TextsOfLen(n) \cup TextsUpTo(n - 1)

\* bson.M{"a": "x,y", "b": bson.M{"c": 1}}
ExampleLiteral ==
    <<"bson.M", "{", Q, "a", Q, ":", SP, Q, "x", ",", "y", Q, ",", SP,
      Q, "b", Q, ":", SP, "bson.M", "{", Q, "c", Q, ":", SP, "1", "}", "}">>

\* the wrapper is stripped before the content is tokenized
StripM(s) == TrimSuffix(TrimPrefix(s, BsonMOpen), Close)

ExampleContent == StripM(ExampleLiteral)

SplitInputs == TextsUpTo(MaxTextLen) \cup {ExampleContent}

-----------------------------------------------------------------------------
(* Generated texts: what the provider may answer.  A text is assembled     *)
(* from a choice for each assignment line and each block; gen records the  *)
(* choice.                                                                 *)

\* "<w>"
Quoted(w) == <<Q, w, Q>>
\* {"<k>", <v>}
Pair(k, v) == <<"{">> \o Quoted(k) \o <<",", SP, v, "}">>

FilterBody(f) ==
    CASE f = "empty"  -> <<>>
      [] f = "status" -> BsonMOpen \o Quoted("status") \o <<":", SP>>
                         \o Quoted("active") \o Close
      [] f = "nested" -> ExampleLiteral
      [] f = "prompt" -> BsonMOpen \o <<NL, "\t">> \o Quoted("status") \o <<":", SP>>
                         \o Quoted("active") \o <<",", NL, "\t">> \o Quoted("age")
                         \o <<":", SP>> \o BsonMOpen \o Quoted("$gt")
                         \o <<":", SP, "18">> \o Close \o <<NL>> \o Close
      [] f = "bare"   -> <<"{">> \o Quoted("a") \o <<":", SP, "1">> \o Close
      [] f = "junk"   -> BsonMOpen \o Quoted("a") \o <<":", SP, "1", ",", SP, "junk">>
                         \o Close

SortBody(s) ==
    CASE s = "asc"  -> BsonDOpen \o Pair("a", "1") \o Close
      [] s = "bad"  -> BsonDOpen \o Pair("a", "-1") \o <<",", SP>>
                       \o Pair("b", "foo") \o Close
      [] s = "skip" -> BsonDOpen \o Pair("a", "1") \o <<",", SP, "junk", ",", SP>>
                       \o Pair("b", "-1") \o Close

LimitBody(l) ==
    CASE l = "ten" -> <<"10">> [] l = "word" -> <<"abc">> [] l = "neg" -> <<"-5">>

ProjectionBody(p) ==
    CASE p = "name" -> BsonDOpen \o Pair("name", "1") \o Close
      [] p = "bad"  -> BsonDOpen \o Pair("x", "bad") \o Close

\* bson.D{{"<op>", <arg>}}
Stage(op, arg) ==
    BsonDOpen \o <<"{">> \o Quoted(op) \o <<",", SP>> \o arg \o <<"}">> \o Close

PipelineBody(a) ==
    CASE a = "empty" -> <<>>
      [] a = "two"   -> PipelineOpen
                        \o Stage("$match", BsonMOpen \o Quoted("status") \o <<":", SP>>
                                           \o Quoted("active") \o Close)
                        \o <<",", SP>> \o Stage("$limit", <<"10">>) \o Close
      [] a = "mid"   -> PipelineOpen
                        \o Stage("$limit", <<"5">>) \o <<",", SP>>
                        \o Stage("$sort", BsonDOpen \o Pair("a", "1") \o Close)
                        \o <<",", SP>> \o Stage("$skip", <<"1">>) \o Close

FilterChoices == {"absent", "empty", "status", "nested", "prompt", "bare", "junk"}
SortChoices == {"absent", "asc", "bad", "skip"}
LimitChoices == {"absent", "ten", "word", "neg"}
ProjectionChoices == {"absent", "name", "bad"}
PipelineChoices == {"absent", "empty", "two", "mid"}

\* the assignment lines: a collection name, an empty name, or no line; an
\* operation kind or no line
HeaderChoices ==
    {<<"orders", "find">>, <<"orders", "aggregate">>, <<"orders", "count">>,
     <<"absent", "find">>, <<"empty", "find">>, <<"orders", "absent">>,
     <<"absent", "absent">>}

AssignLine(name, w) ==
    IF w = "absent" THEN <<>>
    ELSE IF w = "empty" THEN <<"var", SP, name, SP, "=", SP, Q, Q, NL>>
    ELSE <<"var", SP, name, SP, "=", SP, Q, w, Q, NL>>

BlockText(choice, start, body, end) ==
    IF choice = "absent" THEN <<>> ELSE <<start, NL>> \o body \o <<NL, end, NL>>

Gens ==
    [coll : {h[1] : h \in HeaderChoices}, op : {h[2] : h \in HeaderChoices},
     filter : FilterChoices, sort : SortChoices, limit : LimitChoices,
     projection : ProjectionChoices, pipeline : PipelineChoices]

Assemble(g) ==
    AssignLine("collection", g.coll) \o AssignLine("operation", g.op)
    \o BlockText(g.filter, "*FILTER_START", FilterBody(g.filter), "*FILTER_END")
    \o BlockText(g.sort, "*SORT_START", SortBody(g.sort), "*SORT_END")
    \o BlockText(g.limit, "*LIMIT_START", LimitBody(g.limit), "*LIMIT_END")
    \o BlockText(g.projection, "*PROJECTION_START", ProjectionBody(g.projection),
                 "*PROJECTION_END")
    \o BlockText(g.pipeline, "*PIPELINE_START", PipelineBody(g.pipeline),
                 "*PIPELINE_END")

NoGen ==
    [coll |-> "absent", op |-> "absent", filter |-> "absent", sort |-> "absent",
     limit |-> "absent", projection |-> "absent", pipeline |-> "absent"]

\* SELECT 1
SqlText == <<"SELECT", SP, "1">>

-----------------------------------------------------------------------------
(* What the drivers decode.  The document driver decodes into []bson.M: a  *)
(* nested document arrives as primitive.M (bson.M) and an array as         *)
(* primitive.A; a BSON double arrives as float64.                          *)

MongoResults ==
    {<<>>,
     <<(<<"status">> :> StrV(<<"active">>)) @@ (<<"n">> :> Int32V(1))>>,
     <<(<<"status">> :> StrV(<<"active">>)) @@ (<<"age">> :> Int32V(30)),
       (<<"status">> :> StrV(<<"closed">>)) @@ (<<"age">> :> Int32V(40)),
       (<<"n">> :> Int32V(3)),
       (<<"status">> :> StrV(<<"Active">>)),
       (<<"status">> :> StrV(<<"active">>)) @@ (<<"age">> :> Int32V(10)),
       (<<"status">> :> NilV)>>,
     <<(<<"v">> :> Float64V("NaN")) @@ (<<"w">> :> Float64V("+Inf")),
       (<<"v">> :> Float64V("1.5")) @@ (<<"u">> :> Float64V("-Inf"))>>,
     <<(<<"m">> :> MapV(<<"x">> :> Float64V("NaN")))>>,
     <<(<<"arr">> :> ArrV(<<Float64V("+Inf"), Float64V("1.5")>>))>>}

\* database/sql with lib/pq scans a float4/float8 column into float64, text
\* into []byte or string, NULL into nil
PgResults ==
    {<<>>,
     <<(<<"id">> :> Int64V(1)) @@ (<<"name">> :> BytesV(<<"x">>))>>,
     <<(<<"ratio">> :> Float64V("NaN")) @@ (<<"note">> :> NilV)>>,
     <<(<<"ratio">> :> Float64V("1.5"))>>}

-----------------------------------------------------------------------------
(* The document backend: what Find and Aggregate answer for a call, given  *)
(* the documents the collection holds (as the driver decodes them).  The   *)
(* documents of MongoResults hold none of the sort keys of the generated   *)
(* texts, so that a sort leaves them in their natural order.               *)

IsInteger(v) == v.kind \in {"int64", "int32", "int"}

\* equality of a field with a filter value: numbers compare by value
SameValue(a, b) == IF IsInteger(a) /\ IsInteger(b) THEN a.val = b.val ELSE a = b

Operators == {<<"$gt">>}

IsOperatorDoc(v) ==
    /\ v.kind = "bson.M"
    /\ DOMAIN v.val # {}
    /\ DOMAIN v.val \subseteq Operators

\* one condition {k: c} of a filter on a document
Holds(doc, k, c) ==
    IF IsOperatorDoc(c)
    THEN /\ k \in DOMAIN doc
         /\ IsInteger(doc[k]) /\ IsInteger(c.val[<<"$gt">>])
         /\ doc[k].val > c.val[<<"$gt">>].val
    ELSE IF c = NilV THEN k \notin DOMAIN doc \/ doc[k] = NilV
    ELSE k \in DOMAIN doc /\ SameValue(doc[k], c)

\* the filter (a bson.M) selects the document
Matches(doc, filter) == \A k \in DOMAIN filter.val : Holds(doc, k, filter.val[k])

RECURSIVE Select(_, _)
Select(docs, filter) ==
    IF docs = <<>> THEN <<>>
    ELSE IF Matches(Head(docs), filter)
         THEN <<Head(docs)>> \o Select(Tail(docs), filter)
         ELSE Select(Tail(docs), filter)

Take(docs, n) == SubSeq(docs, 1, IF n < Len(docs) THEN n ELSE Len(docs))
Drop(docs, n) == SubSeq(docs, (IF n < Len(docs) THEN n ELSE Len(docs)) + 1, Len(docs))

\* a limit of zero is no limit, a negative limit is its absolute value
Limited(docs, limit) ==
    IF ~limit.set \/ limit.val.val = 0 THEN docs
    ELSE IF limit.val.val < 0 THEN Take(docs, 0 - limit.val.val)
    ELSE Take(docs, limit.val.val)

\* the fields an inclusion projection keeps
Included(projection) ==
    {projection.val.val[i].Key : i \in {j \in 1..Len(projection.val.val) :
        /\ IsInteger(projection.val.val[j].Value)
        /\ projection.val.val[j].Value.val = 1}}

Project(doc, projection) ==
    IF ~projection.set \/ Included(projection) = {} THEN doc
    ELSE [k \in DOMAIN doc \cap (Included(projection) \cup {<<"_id">>}) |-> doc[k]]

\* the answer to Find(ctx, filter, findOptions)
FindAnswer(call, docs) ==
    LET hits == Limited(Select(docs, call.filter), call.limit)
    IN  [i \in 1..Len(hits) |-> Project(hits[i], call.projection)]

\* one stage of a pipeline
StageAnswer(stage, docs) ==
    IF Len(stage.val) # 1 THEN docs
    ELSE LET e == stage.val[1]
         IN  IF e.Key = <<"$match">> /\ e.Value.kind = "bson.M"
             THEN Select(docs, e.Value)
             ELSE IF e.Key = <<"$limit">> /\ IsInteger(e.Value)
             THEN Take(docs, e.Value.val)
             ELSE IF e.Key = <<"$skip">> /\ IsInteger(e.Value)
             THEN Drop(docs, e.Value.val)
             ELSE docs

\* the answer to Aggregate(ctx, pipeline)
RECURSIVE AggregateAnswer(_, _)
AggregateAnswer(pipeline, docs) ==
    IF pipeline = <<>> THEN docs
    ELSE AggregateAnswer(Tail(pipeline), StageAnswer(Head(pipeline), docs))

\* what cursor.All decodes for the call
Answer(call, docs) ==
    IF call.op = "find" THEN FindAnswer(call, docs)
    ELSE AggregateAnswer(call.pipeline, docs)

-----------------------------------------------------------------------------
(* Value trees for the sanitizer *)

Leaves ==
    {Float64V("NaN"), Float64V("+Inf"), Float64V("-Inf"), Float64V("1.5"),
     StrV(<<"NaN">>), Float32V("NaN")}

Keys == {<<"a">>, <<"b">>}

RECURSIVE SeqsOfLen(_, _)
SeqsOfLen(S, n) ==
    IF n = 0 THEN {<<>>}
    ELSE {Append(t, e) : t \in SeqsOfLen(S, n - 1), e \in S}

RECURSIVE SeqsUpTo(_, _)
SeqsUpTo(S, n) == IF n = 0 THEN {<<>>} ELSE SeqsOfLen(S, n) \cup SeqsUpTo(S, n - 1)

MapsOver(S) == UNION {[K -> S] : K \in SUBSET Keys}

\* every container over the elements of S: maps on any set of keys and
\* sequences up to MaxSeqLen, in the generic and in the driver's types
Wide(S) ==
    {GoMapV(f) : f \in MapsOver(S)} \cup {MapV(f) : f \in MapsOver(S)}
    \cup {SliceV(s) : s \in SeqsUpTo(S, MaxSeqLen)}
    \cup {ArrV(s) : s \in SeqsUpTo(S, MaxSeqLen)}

\* one more level around the elements of S
Nest(S) ==
    {GoMapV(<<"a">> :> t) : t \in S} \cup {MapV(<<"a">> :> t) : t \in S}
    \cup {SliceV(<<t>>) : t \in S} \cup {ArrV(<<t>>) : t \in S}
    \cup {SliceV(<<Float64V("NaN"), t>>) : t \in S}
    \cup {GoMapV((<<"a">> :> t) @@ (<<"b">> :> Float64V("-Inf"))) : t \in S}

RECURSIVE Trees(_)
Trees(d) ==
    IF d = 0 THEN Leaves
    ELSE IF d = 1 THEN Leaves \cup Wide(Leaves)
    ELSE Trees(d - 1) \cup Nest(Trees(d - 1))

-----------------------------------------------------------------------------
(* The tokenizer under check *)

IdleSanitize == tree = NilV /\ san = "" /\ out = NilV /\ again = NilV
IdleSplit == content = <<>> /\ pairs = <<>> /\ stages = <<>>
IdleExec ==
    /\ db = [Type |-> ""]
    /\ gen = NoGen
    /\ code = <<>>
    /\ conn = "none"
    /\ desc = NoDesc
    /\ issued = <<>>
    /\ store = <<>>
    /\ raw = <<>>
    /\ returned = <<>>
    /\ err = ""

\* no entry has been handed to the routine yet
Pending == [err |-> FALSE, val |-> NilV]

IdleDatabase ==
    /\ dreq = [handler |-> "", user |-> "", refresh |-> FALSE]
    /\ rec = [UserID |-> "", Schema |-> [set |-> FALSE, tables |-> <<>>],
              Stats |-> [set |-> FALSE, TableCount |-> 0, Size |-> ""],
              LastConnected |-> FALSE]
    /\ saved = [UserID |-> "", Schema |-> [set |-> FALSE, tables |-> <<>>],
                Stats |-> [set |-> FALSE, TableCount |-> 0, Size |-> ""],
                LastConnected |-> FALSE]
    /\ steps = [test |-> "", schema |-> "", stats |-> "", save |-> ""]
    /\ reply = [status |-> 0, table_count |-> -1, database_size |-> ""]

IdleRecord ==
    /\ task = ""
    /\ kept = [exists |-> FALSE, Name |-> "", NaturalQuery |-> "",
               Status |-> "", Results |-> <<>>, Error |-> "",
               ExecutionTime |-> ""]
    /\ rq = [exists |-> FALSE, Name |-> "", NaturalQuery |-> "",
             Status |-> "", Results |-> <<>>, Error |-> "",
             ExecutionTime |-> ""]
    /\ uq = [exists |-> FALSE, Name |-> "", NaturalQuery |-> "",
             Status |-> "", Results |-> <<>>, Error |-> "",
             ExecutionTime |-> ""]
    /\ late = FALSE
    /\ written = [exists |-> FALSE, Name |-> "", NaturalQuery |-> "",
                  Status |-> "", Results |-> <<>>, Error |-> "",
                  ExecutionTime |-> ""]
    /\ answers = [run |-> 0, upd |-> 0]

IdleSignup ==
    /\ accounts = <<>>
    /\ signups = <<>>

IdleOp ==
    /\ running = [kind |-> "", backend |-> "", tables |-> 0]
    /\ step = 0
    /\ live = {}
    /\ deferred = {}
    /\ expired = FALSE
    /\ outcome = ""

NoDatabase == [ID |-> "", UserID |-> "", Type |-> ""]

NoQuery ==
    [UserID |-> "", DatabaseID |-> "", Status |-> "", GeneratedSQL |-> <<>>,
     Error |-> ""]

IdleHandler ==
    /\ req = [user |-> "", DatabaseID |-> "", Query |-> <<>>]
    /\ answer = <<>>
    /\ found = NoDatabase
    /\ query = NoQuery
    /\ handed = <<>>
    /\ resp = 0

IdleSchema == target = [Type |-> "", catalog |-> <<>>] /\ fetches = <<>>

IdleEntry ==
    entry = [key |-> <<>>, value |-> <<>>] /\ asM = Pending /\ asD = Pending

InitSplit ==
    /\ pc = "split"
    /\ content \in SplitInputs
    /\ pairs = <<>>
    /\ stages = <<>>
    /\ IdleSanitize
    /\ IdleExec
    /\ IdleEntry
    /\ IdleSchema
    /\ IdleHandler
    /\ IdleOp
    /\ IdleSignup
    /\ IdleRecord
    /\ IdleDatabase

Tokenize ==
    /\ pc = "split"
    /\ pairs' = splitBSONPairs(content)
    /\ stages' = splitPipelineStages(content)
    /\ pc' = "split.done"
    /\ UNCHANGED <<content, notSplit>>

NextSplit == Tokenize

SpecSplit == InitSplit /\ [][NextSplit]_vars

-----------------------------------------------------------------------------
(* The sanitizer under check *)

InitSanitize ==
    /\ pc = "sanitize"
    /\ tree \in Trees(MaxDepth)
    /\ san \in {"sanitizeValue", "sanitizeJSONValue"}
    /\ out = NilV
    /\ again = NilV
    /\ IdleSplit
    /\ IdleExec
    /\ IdleEntry
    /\ IdleSchema
    /\ IdleHandler
    /\ IdleOp
    /\ IdleSignup
    /\ IdleRecord
    /\ IdleDatabase

SanitizeOnce ==
    /\ pc = "sanitize"
    /\ out' = Sanitize(san, tree)
    /\ pc' = "sanitize.once"
    /\ UNCHANGED <<tree, san, again, notSanitize>>

SanitizeAgain ==
    /\ pc = "sanitize.once"
    /\ again' = Sanitize(san, out)
    /\ pc' = "sanitize.twice"
    /\ UNCHANGED <<tree, san, out, notSanitize>>

NextSanitize == SanitizeOnce \/ SanitizeAgain

SpecSanitize == InitSanitize /\ [][NextSanitize]_vars

-----------------------------------------------------------------------------
(* The entry parsers under check: one entry, written once as the entry of  *)
(* a mapping literal and once as the entry of an ordered-pair list         *)

\* the keys, as the lexemes between the quotes
EntryKeys ==
    {<<"a">>, <<"$gt">>, <<"a", ":", "b">>, <<"a", ",", "b">>, <<"a", ",">>,
     <<"a", SP, "b">>}

\* the value texts: quoted literals, nil, nested openers, numbers, other text
EntryValues ==
    {Quoted("x"), <<Q, "x", ",", "y", Q>>, <<Q, "10", ":", "30", Q>>,
     <<"nil">>,
     BsonMOpen \o Quoted("c") \o <<":", SP, "1">> \o Close,
     BsonDOpen \o Pair("c", "1") \o Close,
     <<"5">>, <<"-1">>, <<"1.5">>, <<"NaN">>, <<"foo">>, <<"true">>,
     <<"3000000000">>, <<"4294967297">>}

\* "key": value
MappingEntry(e) == <<Q>> \o e.key \o <<Q, ":", SP>> \o e.value

\* {"key", value}
OrderedEntry(e) == <<"{", Q>> \o e.key \o <<Q, ",", SP>> \o e.value \o Close

InitEntry ==
    /\ pc = "entry"
    /\ entry \in [key : EntryKeys, value : EntryValues]
    /\ asM = Pending
    /\ asD = Pending
    /\ IdleSplit
    /\ IdleSanitize
    /\ IdleExec
    /\ IdleSchema
    /\ IdleHandler
    /\ IdleOp
    /\ IdleSignup
    /\ IdleRecord
    /\ IdleDatabase

\* parseBSONM on the content of bson.M{"key": value}
ParseAsMapping ==
    /\ pc = "entry"
    /\ asM = Pending
    /\ asM' = parseBSONM(MappingEntry(entry))
    /\ UNCHANGED <<pc, entry, asD, notEntry>>

\* parseBSOND on the content of bson.D{{"key", value}}
ParseAsOrdered ==
    /\ pc = "entry"
    /\ asD = Pending
    /\ asD' = parseBSOND(OrderedEntry(entry))
    /\ UNCHANGED <<pc, entry, asM, notEntry>>

NextEntry == ParseAsMapping \/ ParseAsOrdered

SpecEntry == InitEntry /\ [][NextEntry]_vars

-----------------------------------------------------------------------------
(* Schema introspection: fetchMongoDBSchema with inferMongoDBColumnsWithPath *)
(* and fetchPostgresSchema with fetchPostgresColumns                         *)

BoolV(b) == [kind |-> "bool", val |-> b]
ObjectIDV(w) == [kind |-> "ObjectID", val |-> w]
DateTimeV(w) == [kind |-> "primitive.DateTime", val |-> w]

Column(name, type, nullable, pk, fields, path) ==
    [Name |-> name, Type |-> type, Nullable |-> nullable, PrimaryKey |-> pk,
     Fields |-> fields, Path |-> path]

Table(name, columns) == [Name |-> name, Columns |-> columns]

\* the type switch of inferMongoDBColumnsWithPath
DataType(v) ==
    CASE v.kind = "string" -> "string"
      [] v.kind \in {"int", "int32", "int64"} -> "number"
      [] v.kind \in {"float32", "float64"} -> "number"
      [] v.kind = "bool" -> "boolean"
      [] v.kind = "primitive.DateTime" -> "date"
      [] v.kind = "ObjectID" -> "ObjectID"
      [] v.kind = "primitive.A" -> "array"
      [] v.kind \in {"bson.M", "bson.D", "map"} -> "object"
      [] v.kind = "nil" -> "null"
      [] OTHER -> "unknown"

\* m := bson.M{}; for _, e := range d { m[e.Key] = e.Value }
RECURSIVE DToM(_)
DToM(d) ==
    IF d = <<>> THEN EmptyMap
    ELSE LET e == d[Len(d)]
         IN  (e.Key :> e.Value) @@ DToM(SubSeq(d, 1, Len(d) - 1))

\* path := key, or parentPath + "." + key
PathOf(parentPath, key) ==
    IF parentPath = <<>> THEN key ELSE parentPath \o <<".">> \o key

\* the orders in which `range` may visit the keys of a map
Orders(K) == {o \in [1..Cardinality(K) -> K] : \A k \in K : \E i \in DOMAIN o : o[i] = k}

\* the document whose fields become the nested columns of a value, if any
NestedDoc(v) ==
    CASE v.kind \in {"bson.M", "map"} -> [found |-> TRUE, doc |-> v.val]
      [] v.kind = "bson.D" -> [found |-> TRUE, doc |-> DToM(v.val)]
      [] v.kind = "primitive.A" /\ Len(v.val) > 0 /\ v.val[1].kind = "bson.M" ->
            [found |-> TRUE, doc |-> v.val[1].val]
      [] v.kind = "primitive.A" /\ Len(v.val) > 0 /\ v.val[1].kind = "bson.D" ->
            [found |-> TRUE, doc |-> DToM(v.val[1].val)]
      [] OTHER -> [found |-> FALSE, doc |-> EmptyMap]

\* inferMongoDBColumnsWithPath: every column list the loop over the map can
\* build, one for each order of visiting the keys at each level
RECURSIVE inferMongoDBColumnsWithPath(_, _)
RECURSIVE ColumnsIn(_, _, _, _)

\* the columns a key can become
ColumnFor(doc, key, parentPath) ==
    LET path == PathOf(parentPath, key)
        n    == NestedDoc(doc[key])
    IN  IF key = <<"_id">>
        THEN {Column(<<"_id">>, "ObjectID", FALSE, TRUE, <<>>, path)}
        ELSE {Column(key, DataType(doc[key]), TRUE, FALSE, fields, path) :
                fields \in IF n.found THEN inferMongoDBColumnsWithPath(n.doc, path)
                           ELSE {<<>>}}

ColumnsIn(doc, order, i, parentPath) ==
    IF i > Len(order) THEN {<<>>}
    ELSE {<<c>> \o rest : c \in ColumnFor(doc, order[i], parentPath),
                          rest \in ColumnsIn(doc, order, i + 1, parentPath)}

inferMongoDBColumnsWithPath(doc, parentPath) ==
    UNION {ColumnsIn(doc, order, 1, parentPath) : order \in Orders(DOMAIN doc)}

inferMongoDBColumns(doc) == inferMongoDBColumnsWithPath(doc, <<>>)

IsSystem(collName) == HasPrefix(collName, <<"system", ".">>)

\* the loop of fetchMongoDBSchema over the collection names
RECURSIVE MongoTables(_, _)
MongoTables(collections, i) ==
    IF i > Len(collections) THEN {<<>>}
    ELSE IF IsSystem(collections[i].name) THEN MongoTables(collections, i + 1)
    ELSE {<<Table(collections[i].name, columns)>> \o rest :
            columns \in IF collections[i].sample = "doc"
                        THEN inferMongoDBColumns(collections[i].doc)
                        ELSE {<<>>},
            rest \in MongoTables(collections, i + 1)}

Fetched(tables, e) == [schema |-> tables, err |-> e]

\* fetchMongoDBSchema: an error of connect, ping or ListCollectionNames
\* with the empty schema, or the tables of the collections
fetchMongoDBSchema(catalog) ==
    {Fetched(<<>>, e) : e \in {"failed to create MongoDB client",
                               "failed to connect to MongoDB",
                               "failed to list collections"}}
    \cup {Fetched(tables, "") : tables \in MongoTables(catalog, 1)}

\* fetchPostgresColumns: the rows of the catalog query in ordinal order;
\* Fields and Path keep their zero values
RECURSIVE fetchPostgresColumns(_)
fetchPostgresColumns(rows) ==
    IF rows = <<>> THEN <<>>
    ELSE <<Column(rows[1].name, rows[1].type, rows[1].nullable, rows[1].pk,
                  <<>>, <<>>)>> \o fetchPostgresColumns(Tail(rows))

\* the loop of fetchPostgresSchema over the table names: a table whose
\* column fetch fails is skipped
RECURSIVE PostgresTables(_, _)
PostgresTables(tables, i) ==
    IF i > Len(tables) THEN <<>>
    ELSE IF tables[i].fails THEN PostgresTables(tables, i + 1)
    ELSE <<Table(tables[i].name, fetchPostgresColumns(tables[i].rows))>>
         \o PostgresTables(tables, i + 1)

\* fetchPostgresSchema
fetchPostgresSchema(catalog) ==
    {Fetched(<<>>, e) : e \in {"failed to create connector",
                               "failed to ping database",
                               "failed to query tables",
                               "failed to scan table name"}}
    \cup {Fetched(PostgresTables(catalog, 1), "")}

\* FetchDatabaseSchema: the introspector of the backend kind
FetchDatabaseSchema(t) ==
    IF t.Type = "postgresql" THEN fetchPostgresSchema(t.catalog)
    ELSE IF t.Type = "mongodb" THEN fetchMongoDBSchema(t.catalog)
    ELSE {Fetched(<<>>, "unsupported database type")}

-----------------------------------------------------------------------------
(* The backends a schema is fetched from *)

\* the most tables or collections of a backend
MaxTables == 2

Sampled(name, doc) == [name |-> name, sample |-> "doc", doc |-> doc]

\* collections with the sample document FindOne decodes (into bson.M, nested
\* documents as primitive.M, arrays as primitive.A), an empty collection
\* and one whose FindOne fails
MongoCollections ==
    {Sampled(<<"users">>,
             (<<"_id">> :> ObjectIDV("X"))
             @@ (<<"addr">> :> MapV(<<"city">> :> StrV(<<"A">>)))),
     Sampled(<<"orders">>,
             (<<"name">> :> StrV(<<"x">>))
             @@ (<<"tags">> :> ArrV(<<MapV((<<"k">> :> StrV(<<"v">>))
                                          @@ (<<"n">> :> Int32V(1)))>>))),
     Sampled(<<"deep">>,
             (<<"a">> :> MapV(<<"b">> :> MapV(<<"c">> :> BoolV(TRUE))))
             @@ (<<"d">> :> DocV(<<E(<<"x">>, Float64V("1.5"))>>))),
     Sampled(<<"system", ".", "indexes">>, (<<"v">> :> Int32V(2))),
     [name |-> <<"empty">>, sample |-> "none", doc |-> EmptyMap],
     [name |-> <<"bad">>, sample |-> "error", doc |-> EmptyMap]}

PgRow(name, type, nullable, pk) ==
    [name |-> name, type |-> type, nullable |-> nullable, pk |-> pk]

\* the base tables of the public schema in the order of ORDER BY table_name,
\* each with its columns in ordinal order; the column query of one fails
PgTableList ==
    <<[name |-> <<"items">>, fails |-> FALSE,
       rows |-> <<PgRow(<<"id">>, "integer", FALSE, TRUE)>>],
      [name |-> <<"logs">>, fails |-> TRUE, rows |-> <<>>],
      [name |-> <<"orders">>, fails |-> FALSE,
       rows |-> <<PgRow(<<"id">>, "integer", FALSE, TRUE),
                  PgRow(<<"total">>, "numeric", TRUE, FALSE)>>],
      [name |-> <<"users">>, fails |-> FALSE,
       rows |-> <<PgRow(<<"id">>, "uuid", FALSE, TRUE),
                  PgRow(<<"email">>, "text", FALSE, FALSE),
                  PgRow(<<"age">>, "integer", TRUE, FALSE)>>]>>

\* the sequences of at most n distinct elements of S
Injections(S, n) ==
    {s \in SeqsUpTo(S, n) : \A i, j \in DOMAIN s : i # j => s[i] # s[j]}

\* the elements of list at the increasing indices of I
RECURSIVE Pick(_, _)
Pick(list, I) ==
    IF I = {} THEN <<>>
    ELSE LET m == CHOOSE i \in I : \A j \in I : i >= j
         IN  Append(Pick(list, I \ {m}), list[m])

Targets ==
    {[Type |-> "mongodb", catalog |-> c] : c \in Injections(MongoCollections, MaxTables)}
    \cup {[Type |-> "postgresql", catalog |-> Pick(PgTableList, I)] :
            I \in {J \in SUBSET (1..Len(PgTableList)) : Cardinality(J) <= MaxTables}}
    \cup {[Type |-> "mysql", catalog |-> <<>>]}

InitSchema ==
    /\ pc = "schema"
    /\ target \in Targets
    /\ fetches = <<>>
    /\ IdleSplit
    /\ IdleSanitize
    /\ IdleExec
    /\ IdleEntry
    /\ IdleHandler
    /\ IdleOp
    /\ IdleSignup
    /\ IdleRecord
    /\ IdleDatabase

\* one schema fetch against the backend, which does not change
FetchSchema ==
    /\ pc = "schema"
    /\ Len(fetches) < 2
    /\ \E r \in FetchDatabaseSchema(target) : fetches' = Append(fetches, r)
    /\ UNCHANGED <<pc, target, notSchema>>

NextSchema == FetchSchema

SpecSchema == InitSchema /\ [][NextSchema]_vars

-----------------------------------------------------------------------------
(* CreateQueryHandler (api/query_handlers.go) with GenerateSQL (ai)        *)

\* the markdown fence of three backquotes, one lexeme
Fence == "<fence>"

\* The clean-up of the three-argument GenerateSQL: the fence markers around
\* the answer are removed.
GenerateSQLUnfenced(dbType, text0) ==
    TrimSpace(TrimSuffix(TrimPrefix(TrimPrefix(TrimSpace(text0),
                                               <<Fence, "sql">>),
                                    <<Fence>>),
                         <<Fence>>))

\* GenerateSQL as CreateQueryHandler calls it (four arguments): the content
\* of the first choice with the surrounding whitespace trimmed
GenerateSQL(dbType, text0) == TrimSpace(text0)

\* the stored connection descriptors, by id
Databases ==
    ("d1" :> [ID |-> "d1", UserID |-> "u1", Type |-> "postgresql"])
    @@ ("d2" :> [ID |-> "d2", UserID |-> "u2", Type |-> "postgresql"])
    @@ ("d3" :> [ID |-> "d3", UserID |-> "u1", Type |-> "mongodb"])
    @@ ("d4" :> [ID |-> "d4", UserID |-> "u2", Type |-> "mongodb"])

Users == {"u1", "u2"}

\* the database ids of a request: stored ones, one that is not stored, one
\* that is no hex id, and none
RequestedIDs == DOMAIN Databases \cup {"d9", "zz", ""}

IsHexID(id) == id \in DOMAIN Databases \cup {"d9"}

Questions == {<<>>, <<"active", SP, "orders">>}

Answers ==
    {<<"SELECT", SP, "1">>,
     <<SP, "SELECT", SP, "1", NL>>,
     <<Fence, "sql", NL, "SELECT", SP, "1", NL, Fence>>,
     <<Fence, NL, "SELECT", SP, "1", NL, Fence>>,
     <<Fence, "sql", NL, "SELECT", SP, "1", NL, Fence, NL>>,
     Assemble([NoGen EXCEPT !.coll = "orders", !.op = "find"])}

InitHandler ==
    /\ pc = "handler"
    /\ req \in [user : Users, DatabaseID : RequestedIDs, Query : Questions]
    /\ answer \in Answers
    /\ found = NoDatabase
    /\ query = NoQuery
    /\ handed = <<>>
    /\ resp = 0
    /\ IdleSplit
    /\ IdleSanitize
    /\ IdleExec
    /\ IdleEntry
    /\ IdleSchema
    /\ IdleOp
    /\ IdleSignup
    /\ IdleRecord
    /\ IdleDatabase

\* the required fields and the database id of the body
Validate ==
    /\ pc = "handler"
    /\ IF req.DatabaseID = "" \/ req.Query = <<>> \/ ~IsHexID(req.DatabaseID)
       THEN resp' = 400 /\ pc' = "handler.done"
       ELSE resp' = resp /\ pc' = "handler.get"
    /\ UNCHANGED <<req, answer, found, query, handed, notHandler>>

\* models.GetDatabaseByID(ctx, databaseID)
GetDatabase ==
    /\ pc = "handler.get"
    /\ \/ /\ resp' = 500
          /\ pc' = "handler.done"
          /\ found' = found
       \/ /\ req.DatabaseID \notin DOMAIN Databases
          /\ resp' = 404
          /\ pc' = "handler.done"
          /\ found' = found
       \/ /\ req.DatabaseID \in DOMAIN Databases
          /\ found' = Databases[req.DatabaseID]
          /\ resp' = resp
          /\ pc' = "handler.create"
    /\ UNCHANGED <<req, answer, query, handed, notHandler>>

\* the record of the request and models.CreateQuery, which stores it with
\* the status pending
CreateQuery ==
    /\ pc = "handler.create"
    /\ \/ /\ resp' = 500
          /\ pc' = "handler.done"
          /\ query' = query
       \/ /\ query' = [NoQuery EXCEPT !.UserID = req.user,
                                      !.DatabaseID = req.DatabaseID,
                                      !.Status = "pending"]
          /\ resp' = resp
          /\ pc' = "handler.generate"
    /\ UNCHANGED <<req, answer, found, handed, notHandler>>

\* ai.FindMatchingSchemaTable and ai.GenerateSQL
Generate ==
    /\ pc = "handler.generate"
    /\ \/ /\ query' = [query EXCEPT !.Status = "failed",
                                    !.Error = "Failed to generate query"]
          /\ resp' = 500
          /\ pc' = "handler.done"
       \/ /\ query' = [query EXCEPT !.GeneratedSQL = GenerateSQL(found.Type, answer)]
          /\ resp' = resp
          /\ pc' = "handler.execute"
    /\ UNCHANGED <<req, answer, found, handed, notHandler>>

\* models.ExecuteQuery(db, generatedQuery)
Execute ==
    /\ pc = "handler.execute"
    /\ handed' = Append(handed, [db |-> found, text |-> query.GeneratedSQL])
    /\ \/ /\ query' = [query EXCEPT !.Status = "failed",
                                    !.Error = "Failed to execute query"]
          /\ resp' = 500
          /\ pc' = "handler.done"
       \/ /\ query' = [query EXCEPT !.Status = "completed", !.Error = ""]
          /\ resp' = resp
          /\ pc' = "handler.update"
    /\ UNCHANGED <<req, answer, found, notHandler>>

\* models.UpdateQuery and the response
Respond ==
    /\ pc = "handler.update"
    /\ resp' \in {200, 500}
    /\ pc' = "handler.done"
    /\ UNCHANGED <<req, answer, found, query, handed, notHandler>>

NextHandler == Validate \/ GetDatabase \/ CreateQuery \/ Generate \/ Execute \/ Respond

SpecHandler == InitHandler /\ [][NextHandler]_vars

-----------------------------------------------------------------------------
(* The backend operations as sequences of calls: connection test, schema   *)
(* fetch, statistics fetch and query execution, for each backend.  A call  *)
(* is remote when it waits for the server, bound when it is given the      *)
(* context that carries the deadline; it may open a resource, whose        *)
(* release is deferred to the return of the operation (scoped) or done by  *)
(* a later call of the same helper (closes); on an error the operation     *)
(* returns (skip 0) or goes on, skipping the rest of the helper (skip n).  *)

Call(name, remote, bound, opens, scoped, closes, skip) ==
    [call |-> name, remote |-> remote, bound |-> bound, opens |-> opens,
     scoped |-> scoped, closes |-> closes, skip |-> skip]

testPostgresConnection ==
    << Call("sql.Open", FALSE, FALSE, {"conn"}, TRUE, {}, 0),
       Call("conn.Ping", TRUE, FALSE, {}, FALSE, {}, 0) >>

testMongoDBConnection ==
    << Call("mongo.Connect", TRUE, TRUE, {"client"}, TRUE, {}, 0),
       Call("client.Ping", TRUE, TRUE, {}, FALSE, {}, 0) >>

OpenPostgres ==
    << Call("pq.NewConnector", FALSE, FALSE, {"conn"}, TRUE, {}, 0),
       Call("conn.PingContext", TRUE, TRUE, {}, FALSE, {}, 0) >>

OpenMongo ==
    << Call("mongo.Connect", TRUE, TRUE, {"client"}, TRUE, {}, 0),
       Call("client.Ping", TRUE, TRUE, {}, FALSE, {}, 0) >>

PostgresTable ==
    << Call("rows.Scan", TRUE, TRUE, {}, FALSE, {}, 0),
       Call("db.QueryContext", TRUE, TRUE, {"columns"}, FALSE, {}, 2),
       Call("columns.Scan", TRUE, TRUE, {}, FALSE, {"columns"}, 1) >>

MongoCollection ==
    << Call("coll.FindOne", TRUE, TRUE, {}, FALSE, {}, 1) >>

RECURSIVE Repeat(_, _)
Repeat(block, n) == IF n = 0 THEN <<>> ELSE block \o Repeat(block, n - 1)

PostgresSchemaCalls(n) ==
    OpenPostgres
    \o << Call("conn.QueryContext", TRUE, TRUE, {"rows"}, TRUE, {}, 0) >>
    \o Repeat(PostgresTable, n)

MongoSchemaCalls(n) ==
    OpenMongo
    \o << Call("database.ListCollectionNames", TRUE, TRUE, {}, FALSE, {}, 0) >>
    \o Repeat(MongoCollection, n)

fetchPostgresStats ==
    OpenPostgres
    \o << Call("conn.QueryRowContext", TRUE, TRUE, {}, FALSE, {}, 0),
          Call("conn.QueryRowContext", TRUE, TRUE, {}, FALSE, {}, 0) >>

fetchMongoDBStats ==
    OpenMongo
    \o << Call("database.ListCollectionNames", TRUE, TRUE, {}, FALSE, {}, 0),
          Call("database.RunCommand", TRUE, TRUE, {}, FALSE, {}, 0) >>

executePostgresQuery ==
    OpenPostgres
    \o << Call("conn.QueryContext", TRUE, TRUE, {"rows"}, TRUE, {}, 0),
          Call("rows.Columns", FALSE, FALSE, {}, FALSE, {}, 0),
          Call("rows.Scan", TRUE, TRUE, {}, FALSE, {}, 0) >>

executeMongoDBQuery ==
    OpenMongo
    \o << Call("executeMongoDBGoCode", FALSE, FALSE, {}, FALSE, {}, 0),
          Call("Collection.Find", TRUE, TRUE, {"cursor"}, TRUE, {}, 0),
          Call("cursor.All", TRUE, TRUE, {}, FALSE, {}, 0) >>

Calls(o) ==
    CASE o.kind = "test" /\ o.backend = "postgresql" -> testPostgresConnection
      [] o.kind = "test" /\ o.backend = "mongodb" -> testMongoDBConnection
      [] o.kind = "schema" /\ o.backend = "postgresql" ->
            PostgresSchemaCalls(o.tables)
      [] o.kind = "schema" /\ o.backend = "mongodb" ->
            MongoSchemaCalls(o.tables)
      [] o.kind = "stats" /\ o.backend = "postgresql" -> fetchPostgresStats
      [] o.kind = "stats" /\ o.backend = "mongodb" -> fetchMongoDBStats
      [] o.kind = "execute" /\ o.backend = "postgresql" -> executePostgresQuery
      [] o.kind = "execute" /\ o.backend = "mongodb" -> executeMongoDBQuery

Operations ==
    { o \in [kind : {"test", "schema", "stats", "execute"},
             backend : {"postgresql", "mongodb"},
             tables : 0..MaxTables] :
        o.kind = "schema" \/ o.tables = 0 }

\* What is still open once the deferred releases have run.  They run on
\* every return, whatever its result.
RunDeferredOnSuccess(open, releases, res) ==
    IF res = "ok" THEN open \ releases ELSE open

RunDeferred(open, releases, res) == open \ releases

CurrentCall == Calls(running)[step]

InitOp ==
    /\ pc = "op.run"
    /\ running \in Operations
    /\ step = 1
    /\ live = {}
    /\ deferred = {}
    /\ expired = FALSE
    /\ outcome = ""
    /\ IdleSplit
    /\ IdleSanitize
    /\ IdleExec
    /\ IdleEntry
    /\ IdleSchema
    /\ IdleHandler
    /\ IdleSignup
    /\ IdleRecord
    /\ IdleDatabase

\* The operation makes its next call and waits for it.
Issue ==
    /\ pc = "op.run"
    /\ step <= Len(Calls(running))
    /\ pc' = "op.wait"
    /\ UNCHANGED <<opVars, notOp>>

\* No call is left: the operation returns its result.
Finish ==
    /\ pc = "op.run"
    /\ step > Len(Calls(running))
    /\ outcome' = "ok"
    /\ pc' = "op.return"
    /\ UNCHANGED <<running, step, live, deferred, expired, notOp>>

\* The call succeeds.  A call given an expired context does not.
AnswerOk ==
    /\ pc = "op.wait"
    /\ ~(expired /\ CurrentCall.bound)
    /\ live' = (live \cup CurrentCall.opens) \ CurrentCall.closes
    /\ deferred' = IF CurrentCall.scoped
                      THEN deferred \cup CurrentCall.opens
                      ELSE deferred
    /\ step' = step + 1
    /\ pc' = "op.run"
    /\ UNCHANGED <<running, expired, outcome, notOp>>

Failed ==
    /\ live' = live \ CurrentCall.closes
    /\ IF CurrentCall.skip = 0
          THEN /\ outcome' = "error"
               /\ pc' = "op.return"
               /\ step' = step
          ELSE /\ outcome' = outcome
               /\ pc' = "op.run"
               /\ step' = step + CurrentCall.skip
    /\ UNCHANGED <<running, deferred, notOp>>

\* The call returns an error.
AnswerError ==
    /\ pc = "op.wait"
    /\ Failed
    /\ expired' = expired

\* The deadline of the context passes while a call bound to it waits: the
\* call returns the context's error.
DeadlineExceeded ==
    /\ pc = "op.wait"
    /\ CurrentCall.remote
    /\ CurrentCall.bound
    /\ ~expired
    /\ Failed
    /\ expired' = TRUE

\* The operation returns: its deferred releases run.
Return ==
    /\ pc = "op.return"
    /\ live' = RunDeferred(live, deferred, outcome)
    /\ pc' = "op.returned"
    /\ UNCHANGED <<running, step, deferred, expired, outcome, notOp>>

NextOp == Issue \/ Finish \/ AnswerOk \/ AnswerError \/ DeadlineExceeded \/ Return

SpecOp == InitOp /\ [][NextOp]_vars

-----------------------------------------------------------------------------
(* The database handlers: CreateDatabaseHandler, GetDatabaseHandler with   *)
(* refresh, TestConnectionHandler; models.CreateDatabase and               *)
(* models.UpdateDatabase                                                   *)

NoSchema == [set |-> FALSE, tables |-> <<>>]
\* &models.Schema{Tables: tables}
SchemaOf(tables) == [set |-> TRUE, tables |-> tables]
\* &models.Schema{Tables: []models.Table{}}
EmptySchema == SchemaOf(<<>>)

NoStats == [set |-> FALSE, TableCount |-> 0, Size |-> ""]
StatsOf(n, size) == [set |-> TRUE, TableCount |-> n, Size |-> size]

\* &models.Database{...}: no schema, no stats, never connected
NewDatabase(user) ==
    [UserID |-> user, Schema |-> NoSchema, Stats |-> NoStats,
     LastConnected |-> FALSE]

NoRecord == NewDatabase("")

\* what a schema fetch that succeeds may return
FetchedSchemas == {EmptySchema, SchemaOf(<<"users">>), SchemaOf(<<"orders", "users">>)}

\* what a statistics fetch that succeeds may return
FetchedStats == {StatsOf(2, "12 MB")}

\* the records the store may hold when a get request arrives
StoredDatabases ==
    [UserID : Users, Schema : {EmptySchema, SchemaOf(<<"users">>)},
     Stats : {NoStats, StatsOf(1, "8 MB")}, LastConnected : {TRUE}]

NoSteps == [test |-> "", schema |-> "", stats |-> "", save |-> ""]
NoReply == [status |-> 0, table_count |-> -1, database_size |-> ""]

InitDatabase ==
    /\ pc = "db.start"
    /\ \/ /\ dreq \in [handler : {"create", "test"}, user : {"u1"},
                       refresh : {FALSE}]
          /\ saved = NoRecord
       \/ /\ dreq \in [handler : {"get"}, user : {"u1"}, refresh : BOOLEAN]
          /\ saved \in StoredDatabases \cup {NoRecord}
    /\ rec = NoRecord
    /\ steps = NoSteps
    /\ reply = NoReply
    /\ IdleSplit
    /\ IdleSanitize
    /\ IdleExec
    /\ IdleEntry
    /\ IdleSchema
    /\ IdleHandler
    /\ IdleOp
    /\ IdleSignup
    /\ IdleRecord

Replied(status) == [NoReply EXCEPT !.status = status]

\* The handler up to the connection test: the descriptor is built from the
\* request (create, test) or loaded and checked (get).
Load ==
    /\ pc = "db.start"
    /\ \/ /\ dreq.handler \in {"create", "test"}
          /\ rec' = NewDatabase(dreq.user)
          /\ reply' = reply
          /\ pc' = "db.test"
       \/ /\ dreq.handler = "get"
          /\ \/ /\ reply' = Replied(500)
                /\ rec' = rec
                /\ pc' = "db.done"
             \/ /\ saved = NoRecord
                /\ reply' = Replied(404)
                /\ rec' = rec
                /\ pc' = "db.done"
             \/ /\ saved # NoRecord
                /\ saved.UserID # dreq.user
                /\ reply' = Replied(403)
                /\ rec' = saved
                /\ pc' = "db.done"
             \/ /\ saved # NoRecord
                /\ saved.UserID = dreq.user
                /\ rec' = saved
                /\ IF dreq.refresh
                      THEN reply' = reply /\ pc' = "db.test"
                      ELSE reply' = Replied(200) /\ pc' = "db.done"
    /\ UNCHANGED <<dreq, saved, steps, notDatabase>>

\* models.TestConnection(db)
TestConnection ==
    /\ pc = "db.test"
    /\ \/ /\ steps' = [steps EXCEPT !.test = "err"]
          /\ reply' = Replied(400)
          /\ pc' = "db.done"
       \/ /\ steps' = [steps EXCEPT !.test = "ok"]
          /\ reply' = reply
          /\ pc' = "db.schema"
    /\ UNCHANGED <<dreq, rec, saved, notDatabase>>

\* models.FetchDatabaseSchema(db) and what the handler does with its result
FetchAndSetSchema ==
    /\ pc = "db.schema"
    /\ pc' = "db.stats"
    /\ \/ /\ steps' = [steps EXCEPT !.schema = "err"]
          /\ rec' = IF dreq.handler = "test" THEN rec
                    ELSE [rec EXCEPT !.Schema = EmptySchema]
          /\ reply' = reply
       \/ \E schema \in FetchedSchemas :
             /\ steps' = [steps EXCEPT !.schema = "ok"]
             /\ rec' = IF dreq.handler = "test" THEN rec
                       ELSE [rec EXCEPT !.Schema = schema]
             /\ reply' = IF dreq.handler = "test"
                         THEN [reply EXCEPT !.table_count = Len(schema.tables)]
                         ELSE reply
    /\ UNCHANGED <<dreq, saved, notDatabase>>

\* models.FetchDatabaseStats(db) and what the handler does with its result;
\* the test handler answers here
FetchAndSetStats ==
    /\ pc = "db.stats"
    /\ \/ /\ steps' = [steps EXCEPT !.stats = "err"]
          /\ rec' = rec
          /\ reply' = IF dreq.handler = "test"
                      THEN [reply EXCEPT !.status = 200] ELSE reply
       \/ \E stats \in FetchedStats :
             /\ steps' = [steps EXCEPT !.stats = "ok"]
             /\ rec' = IF dreq.handler = "test" THEN rec
                       ELSE [rec EXCEPT !.Stats = stats]
             /\ reply' = IF dreq.handler = "test"
                         THEN [reply EXCEPT !.status = 200,
                                            !.database_size = stats.Size]
                         ELSE reply
    /\ pc' = IF dreq.handler = "test" THEN "db.done" ELSE "db.save"
    /\ UNCHANGED <<dreq, saved, notDatabase>>

\* The $set of UpdateDatabase leaves out the schema.
UpdateDatabaseKeepSchema(old, new) ==
    [old EXCEPT !.Stats = new.Stats, !.LastConnected = new.LastConnected]

\* models.UpdateDatabase: the $set of the fields of the descriptor
UpdateDatabase(old, new) ==
    [old EXCEPT !.Schema = new.Schema, !.Stats = new.Stats,
                !.LastConnected = new.LastConnected]

\* db.LastConnected = &now, then models.CreateDatabase or
\* models.UpdateDatabase, then the response
Save ==
    /\ pc = "db.save"
    /\ pc' = "db.done"
    /\ rec' = [rec EXCEPT !.LastConnected = TRUE]
    /\ \/ /\ steps' = [steps EXCEPT !.save = "err"]
          /\ saved' = saved
          /\ reply' = Replied(500)
       \/ /\ steps' = [steps EXCEPT !.save = "ok"]
          /\ saved' = IF dreq.handler = "create" THEN rec'
                      ELSE UpdateDatabase(saved, rec')
          /\ reply' = Replied(IF dreq.handler = "create" THEN 201 ELSE 200)
    /\ UNCHANGED <<dreq, notDatabase>>

NextDatabase ==
    Load \/ TestConnection \/ FetchAndSetSchema \/ FetchAndSetStats \/ Save

SpecDatabase == InitDatabase /\ [][NextDatabase]_vars

-----------------------------------------------------------------------------
(* The query record: CreateQueryHandler and RerunQueryHandler, which run   *)
(* a query, beside UpdateQueryHandler, which renames it; models.CreateQuery *)
(* and models.UpdateQuery on the queries collection                        *)

NoQueryRecord ==
    [exists |-> FALSE, Name |-> "", NaturalQuery |-> "", Status |-> "",
     Results |-> <<>>, Error |-> "", ExecutionTime |-> ""]

\* models.UpdateQuery: UpdateOne with $set of the marshalled record.  The
\* fields tagged omitempty are not in the document when they are empty (the
\* empty string, a slice without elements), and a field that is not in $set
\* keeps its stored value.
UpdateQuery(old, q) ==
    [exists |-> TRUE,
     Name |-> IF q.Name = "" THEN old.Name ELSE q.Name,
     NaturalQuery |-> q.NaturalQuery,
     Status |-> q.Status,
     Results |-> IF Len(q.Results) = 0 THEN old.Results ELSE q.Results,
     Error |-> IF q.Error = "" THEN old.Error ELSE q.Error,
     ExecutionTime |-> IF q.ExecutionTime = "" THEN old.ExecutionTime
                       ELSE q.ExecutionTime]

\* the records a rerun or an update may find
KeptQueries ==
    {[NoQueryRecord EXCEPT !.exists = TRUE, !.Name = "Query",
                           !.NaturalQuery = "q", !.Status = "completed",
                           !.Results = <<"old row">>, !.ExecutionTime = "9ms"],
     [NoQueryRecord EXCEPT !.exists = TRUE, !.Name = "Query",
                           !.NaturalQuery = "q", !.Status = "failed",
                           !.Error = "Failed to execute query"]}

\* the rows an execution may return
RunResults == {<<>>, <<"row">>}

InitRecord ==
    /\ pc = [run |-> "start", upd |-> "start"]
    /\ \/ task = "create" /\ kept = NoQueryRecord
       \/ task = "rerun" /\ kept \in KeptQueries
    /\ rq = NoQueryRecord
    /\ uq = NoQueryRecord
    /\ late = FALSE
    /\ written = NoQueryRecord
    /\ answers = [run |-> 0, upd |-> 0]
    /\ IdleSplit
    /\ IdleSanitize
    /\ IdleExec
    /\ IdleEntry
    /\ IdleSchema
    /\ IdleHandler
    /\ IdleOp
    /\ IdleSignup
    /\ IdleDatabase

Running(at) == [pc EXCEPT !.run = at]
Answered(status) == [answers EXCEPT !.run = status]

\* One models.UpdateQuery(ctx, query) of the running handler with the record
\* q: refused when the context has expired, and the store may refuse it.
RunnerUpdate(q, ok) ==
    /\ ok => ~late
    /\ kept' = IF ok THEN UpdateQuery(kept, q) ELSE kept
    /\ written' = IF ok THEN kept' ELSE written

\* CreateQueryHandler: the record is built and models.CreateQuery inserts it
\* with the status pending.
InsertQuery ==
    /\ pc.run = "start"
    /\ task = "create"
    /\ \/ /\ pc' = Running("done")
          /\ answers' = Answered(500)
          /\ UNCHANGED <<kept, rq>>
       \/ /\ rq' = [NoQueryRecord EXCEPT !.exists = TRUE, !.Name = "Query",
                                         !.NaturalQuery = "q",
                                         !.Status = "pending"]
          /\ kept' = rq'
          /\ pc' = Running("generate")
          /\ answers' = answers
    /\ UNCHANGED <<task, uq, late, written, notRecord>>

\* RerunQueryHandler: models.GetQueryByID and models.GetDatabaseByID
LoadQuery ==
    /\ pc.run = "start"
    /\ task = "rerun"
    /\ \/ /\ pc' = Running("done")
          /\ answers' = Answered(500)
          /\ rq' = rq
       \/ /\ rq' = kept
          /\ \/ pc' = Running("done") /\ answers' \in {Answered(500), Answered(404)}
             \/ pc' = Running("mark") /\ answers' = answers
    /\ UNCHANGED <<task, kept, uq, late, written, notRecord>>

\* RerunQueryHandler: the status running and the cleared error are stored;
\* a failure of this update is logged only.
MarkRunning ==
    /\ pc.run = "mark"
    /\ rq' = [rq EXCEPT !.Status = "running", !.Error = ""]
    /\ \E ok \in BOOLEAN : RunnerUpdate(rq', ok)
    /\ pc' = Running("execute")
    /\ UNCHANGED <<task, uq, late, answers, notRecord>>

\* CreateQueryHandler: ai.FindMatchingSchemaTable and ai.GenerateSQL; the
\* context of the handler may expire meanwhile.
GenerateQuery ==
    /\ pc.run = "generate"
    /\ late' \in {late, TRUE}
    /\ \/ /\ rq' = [rq EXCEPT !.Status = "failed",
                              !.Error = "Failed to generate query"]
          /\ \E ok \in BOOLEAN :
                /\ ok => ~late'
                /\ kept' = IF ok THEN UpdateQuery(kept, rq') ELSE kept
                /\ written' = IF ok THEN kept' ELSE written
          /\ pc' = Running("done")
          /\ answers' = Answered(500)
       \/ /\ rq' = rq
          /\ pc' = Running("execute")
          /\ UNCHANGED <<kept, written, answers>>
    /\ UNCHANGED <<task, uq, notRecord>>

\* models.ExecuteQuery under its own context; the context of the handler
\* may expire meanwhile.
RunQuery ==
    /\ pc.run = "execute"
    /\ late' \in {late, TRUE}
    /\ \/ /\ rq' = [rq EXCEPT !.Status = "failed",
                              !.Error = "Failed to execute query"]
          /\ \E ok \in BOOLEAN :
                /\ ok => ~late'
                /\ kept' = IF ok THEN UpdateQuery(kept, rq') ELSE kept
                /\ written' = IF ok THEN kept' ELSE written
          /\ pc' = Running("done")
          /\ answers' = Answered(500)
       \/ \E results \in RunResults :
             /\ rq' = [rq EXCEPT !.Status = "completed", !.Results = results,
                                 !.ExecutionTime = "5ms", !.Error = ""]
             /\ pc' = Running("update")
             /\ UNCHANGED <<kept, written, answers>>
    /\ UNCHANGED <<task, uq, notRecord>>

\* the last models.UpdateQuery of the running handler and its response
StoreResults ==
    /\ pc.run = "update"
    /\ \E ok \in BOOLEAN :
          /\ RunnerUpdate(rq, ok)
          /\ answers' = Answered(IF ok THEN 200 ELSE 500)
    /\ pc' = Running("done")
    /\ UNCHANGED <<task, rq, uq, late, notRecord>>

\* UpdateQueryHandler: models.GetQueryByID
ReadForUpdate ==
    /\ pc.upd = "start"
    /\ \/ /\ answers' = [answers EXCEPT !.upd = 500]
          /\ pc' = [pc EXCEPT !.upd = "done"]
          /\ uq' = uq
       \/ /\ ~kept.exists
          /\ answers' = [answers EXCEPT !.upd = 404]
          /\ pc' = [pc EXCEPT !.upd = "done"]
          /\ uq' = uq
       \/ /\ kept.exists
          /\ uq' = kept
          /\ pc' = [pc EXCEPT !.upd = "save"]
          /\ answers' = answers
    /\ UNCHANGED <<task, kept, rq, late, written, notRecord>>

\* UpdateQueryHandler: the name and the text of the request are set and
\* models.UpdateQuery stores the record.
SaveUpdate ==
    /\ pc.upd = "save"
    /\ \E name \in {"", "renamed"}, text \in {"", "q2"} :
          uq' = [uq EXCEPT !.Name = IF name # "" THEN name ELSE @,
                           !.NaturalQuery = IF text # "" THEN text ELSE @]
    /\ \/ /\ kept' = UpdateQuery(kept, uq')
          /\ answers' = [answers EXCEPT !.upd = 200]
       \/ /\ kept' = kept
          /\ answers' = [answers EXCEPT !.upd = 500]
    /\ pc' = [pc EXCEPT !.upd = "done"]
    /\ UNCHANGED <<task, rq, late, written, notRecord>>

NextRecord ==
    \/ InsertQuery \/ LoadQuery \/ MarkRunning \/ GenerateQuery \/ RunQuery
    \/ StoreResults \/ ReadForUpdate \/ SaveUpdate

SpecRecord == InitRecord /\ [][NextRecord]_vars

-----------------------------------------------------------------------------
(* SignupHandler with models.CreateUser, for requests that run side by     *)
(* side                                                                    *)

Emails == {"a@x", "b@x"}

\* the number of signup requests
MaxSignups == 2

Signup(email) == [email |-> email, existing |-> FALSE, status |-> 0]

\* the documents GetUserByEmail can find
HasAccount(email) == \E i \in 1..Len(accounts) : accounts[i] = email

InitSignup ==
    /\ pc \in [1..MaxSignups -> {"signup"}]
    /\ accounts \in {<<>>, <<"a@x">>}
    /\ signups \in [1..MaxSignups -> {Signup(e) : e \in Emails}]
    /\ IdleSplit
    /\ IdleSanitize
    /\ IdleExec
    /\ IdleEntry
    /\ IdleSchema
    /\ IdleHandler
    /\ IdleOp
    /\ IdleDatabase
    /\ IdleRecord

\* CreateUser: existingUser, _ := GetUserByEmail(ctx, email).  The error of
\* the lookup is dropped: a lookup that fails reports no user.
LookUp(p) ==
    /\ pc[p] = "signup"
    /\ \/ signups' = [signups EXCEPT ![p].existing = HasAccount(signups[p].email)]
       \/ signups' = [signups EXCEPT ![p].existing = FALSE]
    /\ pc' = [pc EXCEPT ![p] = "signup.decide"]
    /\ UNCHANGED <<accounts, notSignup>>

\* CreateUser: the request is refused when the lookup found a user
Decide(p) ==
    /\ pc[p] = "signup.decide"
    /\ IF signups[p].existing
          THEN /\ signups' = [signups EXCEPT ![p].status = 400]
               /\ pc' = [pc EXCEPT ![p] = "signup.done"]
          ELSE /\ signups' = signups
               /\ pc' = [pc EXCEPT ![p] = "signup.insert"]
    /\ UNCHANGED <<accounts, notSignup>>

\* CreateUser: UserCollection().InsertOne, then the token and the response
Insert(p) ==
    /\ pc[p] = "signup.insert"
    /\ \/ /\ accounts' = accounts
          /\ signups' = [signups EXCEPT ![p].status = 400]
       \/ /\ accounts' = Append(accounts, signups[p].email)
          /\ \E status \in {201, 500} :
                signups' = [signups EXCEPT ![p].status = status]
    /\ pc' = [pc EXCEPT ![p] = "signup.done"]
    /\ UNCHANGED notSignup

NextSignup == \E p \in 1..MaxSignups : LookUp(p) \/ Decide(p) \/ Insert(p)

SpecSignup == InitSignup /\ [][NextSignup]_vars

-----------------------------------------------------------------------------
(* ExecuteQuery and the two executors *)

Init ==
    /\ pc = "start"
    /\ \/ /\ db = [Type |-> "mongodb"]
          /\ gen \in {g \in Gens : <<g.coll, g.op>> \in HeaderChoices}
          /\ code = Assemble(gen)
       \/ /\ db \in {[Type |-> "postgresql"], [Type |-> "mysql"]}
          /\ gen = NoGen
          /\ code = SqlText
    /\ conn = "none"
    /\ desc = NoDesc
    /\ issued = <<>>
    /\ store = <<>>
    /\ raw = <<>>
    /\ returned = <<>>
    /\ err = ""
    /\ IdleSplit
    /\ IdleSanitize
    /\ IdleEntry
    /\ IdleSchema
    /\ IdleHandler
    /\ IdleOp
    /\ IdleSignup
    /\ IdleRecord
    /\ IdleDatabase

\* ExecuteQuery: the switch on db.Type
ExecuteQuery ==
    /\ pc = "start"
    /\ \/ /\ db.Type = "postgresql"
          /\ pc' = "postgres"
          /\ err' = err
       \/ /\ db.Type = "mongodb"
          /\ pc' = "mongo.connect"
          /\ err' = err
       \/ /\ db.Type \notin {"postgresql", "mongodb"}
          /\ pc' = "done"
          /\ err' = "unsupported database type"
    /\ UNCHANGED <<db, gen, code, conn, desc, issued, store, raw, returned,
                   notExec>>

\* executePostgresQuery: ping, query, scan every row; the connection is
\* closed by the deferred conn.Close() on every path
ExecutePostgres ==
    /\ pc = "postgres"
    /\ pc' = "done"
    /\ conn' = "closed"
    /\ \/ /\ err' = "failed to ping database"
          /\ UNCHANGED <<issued, raw, returned>>
       \/ /\ err' = "failed to execute query"
          /\ issued' = Append(issued, SqlCall(code))
          /\ UNCHANGED <<raw, returned>>
       \/ \E results \in PgResults :
             /\ issued' = Append(issued, SqlCall(code))
             /\ raw' = results
             /\ returned' = PgRows(results)
             /\ err' = err
    /\ UNCHANGED <<db, gen, code, desc, store, notExec>>

\* The text is parsed before anything is connected.
MongoConnectParseFirst ==
    /\ pc = "mongo.connect"
    /\ IF ParseMongoCode(code).err # ""
          THEN /\ err' = ParseMongoCode(code).err
               /\ conn' = "none"
               /\ pc' = "done"
          ELSE \/ /\ err' = "failed to connect to MongoDB"
                  /\ conn' = "closed"
                  /\ pc' = "done"
               \/ /\ err' = err
                  /\ conn' = "open"
                  /\ pc' = "mongo.parse"
    /\ UNCHANGED <<db, gen, code, desc, issued, store, raw, returned,
                   notExec>>

\* executeMongoDBQuery up to the call of executeMongoDBGoCode: connect and
\* ping under the 120 s context
MongoConnect ==
    /\ pc = "mongo.connect"
    /\ \/ /\ err' = "failed to create MongoDB client"
          /\ conn' = "none"
          /\ pc' = "done"
       \/ /\ err' = "failed to connect to MongoDB"
          /\ conn' = "closed"
          /\ pc' = "done"
       \/ /\ err' = err
          /\ conn' = "open"
          /\ pc' = "mongo.parse"
    /\ UNCHANGED <<db, gen, code, desc, issued, store, raw, returned,
                   notExec>>

\* executeMongoDBGoCode up to the dispatch: the text is parsed; an error
\* returns through the deferred client.Disconnect
MongoParse ==
    /\ pc = "mongo.parse"
    /\ desc' = ParseMongoCode(code)
    /\ \/ /\ desc'.err # ""
          /\ err' = desc'.err
          /\ conn' = "closed"
          /\ pc' = "done"
       \/ /\ desc'.err = ""
          /\ err' = err
          /\ conn' = conn
          /\ pc' = "mongo.run"
    /\ UNCHANGED <<db, gen, code, issued, store, raw, returned, notExec>>

\* executeMongoDBGoCode from the dispatch on: one Find or one Aggregate is
\* issued, the cursor is decoded into []bson.M and every value of every row
\* goes through sanitizeValue
MongoRun ==
    /\ pc = "mongo.run"
    /\ pc' = "done"
    /\ conn' = "closed"
    /\ issued' = Append(issued, IF desc.operation = <<"find">>
                                THEN FindCall(desc) ELSE AggregateCall(desc))
    /\ \/ /\ err' = "failed to execute query"
          /\ UNCHANGED <<store, raw, returned>>
       \/ /\ err' = "failed to decode results"
          /\ UNCHANGED <<store, raw, returned>>
       \/ \E docs \in MongoResults :
             /\ store' = docs
             /\ raw' = Answer(issued'[Len(issued')], docs)
             /\ returned' = MongoRows(raw')
             /\ err' = err
    /\ UNCHANGED <<db, gen, code, desc, notExec>>

Next == ExecuteQuery \/ ExecutePostgres \/ MongoConnect \/ MongoParse \/ MongoRun

Spec == Init /\ [][Next]_vars

-----------------------------------------------------------------------------
(* C1 *)

\* number of quote lexemes among the first n lexemes of s
QuotesBefore(s, n) == Cardinality({j \in 1..n : s[j] = Q})

\* lexeme i of s lies outside every quoted string
Outside(s, i) == QuotesBefore(s, i) % 2 = 0

\* brace depth in front of lexeme i, counting the braces outside quotes
DepthBefore(s, i) ==
    Cardinality({j \in 1..(i - 1) : s[j] = "{" /\ Outside(s, j)})
    - Cardinality({j \in 1..(i - 1) : s[j] = "}" /\ Outside(s, j)})

\* the commas at brace depth zero and outside quotes
TopCommas(s) ==
    {i \in 1..Len(s) : s[i] = "," /\ Outside(s, i) /\ DepthBefore(s, i) = 0}

\* the k-th segment of s cut at the positions of cuts
Segment(s, cuts, k) ==
    LET before == {c \in cuts : Cardinality({d \in cuts : d <= c}) = k - 1}
        at     == {c \in cuts : Cardinality({d \in cuts : d <= c}) = k}
        from   == IF before = {} THEN 1 ELSE (CHOOSE c \in before : TRUE) + 1
        to     == IF at = {} THEN Len(s) ELSE (CHOOSE c \in at : TRUE) - 1
    IN  SubSeq(s, from, to)

\* s cut at exactly the commas of cuts, a trailing empty segment dropped
CutAt(s, cuts) ==
    LET n    == Cardinality(cuts)
        last == Segment(s, cuts, n + 1)
    IN  [k \in 1..(IF last = <<>> THEN n ELSE n + 1) |-> Segment(s, cuts, k)]

\* C1: the tokenizer (splitBSONPairs and splitPipelineStages alike) cuts the
\* text at exactly the commas that are at brace depth zero and outside a
\* quoted string, and nowhere else; the content of
\* bson.M{"a": "x,y", "b": bson.M{"c": 1}} yields exactly two entries.
C1_SplitsAtTopLevelOnly ==
    pc = "split.done" =>
        /\ pairs = CutAt(content, TopCommas(content))
        /\ stages = CutAt(content, TopCommas(content))
        /\ content = ExampleContent => Len(pairs) = 2 /\ Len(stages) = 2

\* the example text has been tokenized into its two entries
C1_Witness ==
    /\ pc = "split.done"
    /\ content = ExampleContent
    /\ pairs = <<SubSeq(ExampleContent, 1, 10),
                 SubSeq(ExampleContent, 12, Len(ExampleContent))>>
    /\ stages = pairs

-----------------------------------------------------------------------------
(* What the blocks of the generated texts denote, written out by hand.     *)

StatusActive == MapV(<<"status">> :> StrV(<<"active">>))

FilterExpected(f) ==
    CASE f \in {"absent", "empty", "bare"} -> NilV
      [] f = "status" -> StatusActive
      [] f = "nested" -> MapV((<<"a">> :> StrV(<<"x", ",", "y">>))
                              @@ (<<"b">> :> MapV(<<"c">> :> Int64V(1))))
      [] f = "prompt" -> MapV((<<"status">> :> StrV(<<"active">>))
                              @@ (<<"age">> :> MapV(<<"$gt">> :> Int64V(18))))
      [] f = "junk"   -> MapV(<<"a">> :> Int64V(1))

SortExpected(s) ==
    CASE s \in {"absent", "bad"} -> Unset
      [] s = "asc"  -> SetTo(DocV(<<E(<<"a">>, Int32V(1))>>))
      [] s = "skip" -> SetTo(DocV(<<E(<<"a">>, Int32V(1)), E(<<"b">>, Int32V(-1))>>))

LimitExpected(l) ==
    CASE l \in {"absent", "word"} -> Unset
      [] l = "ten" -> SetTo(Int64V(10))
      [] l = "neg" -> SetTo(Int64V(-5))

ProjectionExpected(p) ==
    CASE p \in {"absent", "bad"} -> Unset
      [] p = "name" -> SetTo(DocV(<<E(<<"name">>, Int32V(1))>>))

PipelineExpected(a) ==
    CASE a \in {"absent", "empty"} -> <<>>
      [] a = "two" -> <<DocV(<<E(<<"$match">>, StatusActive)>>),
                        DocV(<<E(<<"$limit">>, Int32V(10))>>)>>
      [] a = "mid" -> <<DocV(<<E(<<"$limit">>, Int32V(5))>>),
                        DocV(<<E(<<"$skip">>, Int32V(1))>>)>>

ConnectErrors == {"failed to create MongoDB client", "failed to connect to MongoDB"}

MissingErrors ==
    {"missing collection name in generated code",
     "missing operation type in generated code"}

\* executeMongoDBGoCode has parsed the text of this request
Parsed ==
    /\ db.Type = "mongodb"
    /\ pc = "mongo.run" \/ (pc = "done" /\ err \notin ConnectErrors)

\* an assignment line is missing (a line with an empty name matches as
\* little as no line)
MissingLine(g) == g.coll \in {"absent", "empty"} \/ g.op = "absent"

NoBlocks(g) ==
    /\ g.filter = "absent" /\ g.sort = "absent" /\ g.limit = "absent"
    /\ g.projection = "absent" /\ g.pipeline = "absent"

-----------------------------------------------------------------------------
(* C2 *)

\* C2: a find text with only the two assignment lines parses without an
\* error to a find with no filter, no sort, no limit and no projection, and
\* the find it issues carries the empty filter and no option.
C2_BareFindParses ==
    (Parsed /\ ~MissingLine(gen) /\ gen.op = "find" /\ NoBlocks(gen)) =>
        /\ desc.err = ""
        /\ desc.operation = <<"find">>
        /\ desc.collection = <<"orders">>
        /\ desc.filter = NilV
        /\ desc.sort = Unset /\ desc.limit = Unset /\ desc.projection = Unset
        /\ desc.pipeline = <<>>
        /\ pc = "done" =>
              issued = <<[NoCall EXCEPT !.op = "find", !.collection = <<"orders">>,
                                        !.filter = MapV(EmptyMap)]>>

\* a find text without blocks has been parsed, issued and answered
C2_Witness ==
    /\ Parsed /\ gen.coll = "orders" /\ gen.op = "find" /\ NoBlocks(gen)
    /\ pc = "done" /\ err = ""
    /\ Len(issued) = 1 /\ issued[1].op = "find"
    /\ Len(returned) = 1

-----------------------------------------------------------------------------
(* C3 *)

\* C3: a text whose collection line or operation line is missing fails with
\* the parse error for that line, and nothing is sent to the backend.
C3_MissingLineFails ==
    (Parsed /\ MissingLine(gen)) =>
        /\ pc = "done"
        /\ err = IF gen.coll \in {"absent", "empty"}
                 THEN "missing collection name in generated code"
                 ELSE "missing operation type in generated code"
        /\ issued = <<>>
        /\ raw = <<>> /\ returned = <<>>

\* a text without its operation line has been refused after the connection
\* was opened
C3_Witness ==
    /\ Parsed /\ gen.coll = "orders" /\ gen.op = "absent" /\ gen.filter = "status"
    /\ pc = "done" /\ conn = "closed"
    /\ err = "missing operation type in generated code"
    /\ issued = <<>>

-----------------------------------------------------------------------------
(* C4 *)

\* C4 as stated: whenever both assignment lines match, whatever the
\* operation kind, parsing returns a descriptor and no error.
C4_FailsOnlyWhenLineMissing ==
    (Parsed /\ ~MissingLine(gen)) => desc.err = "" /\ err \notin MissingErrors
        /\ err # "unsupported MongoDB operation"

\* C4 amended: the parse fails only if a line is missing or the operation
\* kind is neither find nor aggregate; for find and aggregate, whatever the
\* blocks contain, parsing returns a descriptor with the collection and the
\* kind of the text.
C4_FailsOnlyWhenLineMissingOrUnsupported ==
    Parsed =>
        /\ desc.err # "" => MissingLine(gen) \/ gen.op \notin {"find", "aggregate"}
        /\ (~MissingLine(gen) /\ gen.op \in {"find", "aggregate"}) =>
              /\ desc.err = ""
              /\ desc.collection = <<gen.coll>>
              /\ desc.operation = <<gen.op>>
              /\ pc = "done" => Len(issued) = 1

\* an aggregate text with a stage that does not parse has been parsed
\* without an error
C4_Witness ==
    /\ Parsed /\ gen.coll = "orders" /\ gen.op = "aggregate" /\ gen.pipeline = "mid"
    /\ pc = "mongo.run" /\ desc.err = "" /\ desc.operation = <<"aggregate">>

-----------------------------------------------------------------------------
(* C5 *)

\* C5: a block or a stage whose parse fails is dropped and nothing else is:
\* each field of the descriptor is what its own block denotes (its zero
\* value when the block is absent, has no wrapper or does not parse), the
\* stages that parse are kept in order around one that does not, an entry
\* without its separator is skipped while its neighbours are kept, and no
\* error reaches the caller.
C5_FailedBlockIsDropped ==
    (Parsed /\ ~MissingLine(gen) /\ gen.op \in {"find", "aggregate"}) =>
        /\ desc.err = "" /\ err \notin MissingErrors
        /\ gen.op = "find" =>
              /\ desc.filter = FilterExpected(gen.filter)
              /\ desc.sort = SortExpected(gen.sort)
              /\ desc.limit = LimitExpected(gen.limit)
              /\ desc.projection = ProjectionExpected(gen.projection)
        /\ gen.op = "aggregate" =>
              desc.pipeline = PipelineExpected(gen.pipeline)

\* a find whose sort and limit blocks do not parse has run with the filter
\* and the projection of its text
C5_Witness ==
    /\ Parsed /\ gen.coll = "orders" /\ gen.op = "find"
    /\ gen.filter = "junk" /\ gen.sort = "bad" /\ gen.limit = "word"
    /\ gen.projection = "name"
    /\ pc = "done" /\ err = ""
    /\ desc.sort = Unset /\ desc.limit = Unset
    /\ desc.filter = MapV(<<"a">> :> Int64V(1))
    /\ desc.projection.set

-----------------------------------------------------------------------------
(* C6 *)

\* C6: an aggregate text with an empty PIPELINE block parses to no stage,
\* and an aggregate with no stage issues the pipeline
\* [{$match: {}}, {$limit: 100}].
C6_EmptyPipelineGetsDefault ==
    (Parsed /\ ~MissingLine(gen) /\ gen.op = "aggregate") =>
        /\ gen.pipeline = "empty" => desc.err = "" /\ desc.pipeline = <<>>
        /\ (pc = "done" /\ desc.pipeline = <<>>) =>
              /\ err \notin MissingErrors
              /\ issued =
                   <<[NoCall EXCEPT
                        !.op = "aggregate", !.collection = <<"orders">>,
                        !.pipeline =
                           <<DocV(<<E(<<"$match">>, MapV(EmptyMap))>>),
                             DocV(<<E(<<"$limit">>, IntV(DefaultLimit))>>)>>]>>

\* an aggregate with an empty PIPELINE block has been issued and answered
C6_Witness ==
    /\ Parsed /\ gen.coll = "orders" /\ gen.op = "aggregate"
    /\ gen.pipeline = "empty"
    /\ pc = "done" /\ err = "" /\ desc.pipeline = <<>>
    /\ Len(issued) = 1 /\ Len(issued[1].pipeline) = 2

-----------------------------------------------------------------------------
(* C7 *)

\* C7: the sanitizer is idempotent: applied to its own result it returns
\* that result.
C7_SanitizeIdempotent ==
    pc = "sanitize.twice" => again = out

\* a tree with a NaN two levels down has been sanitized twice
C7_Witness ==
    /\ pc = "sanitize.twice"
    /\ tree = GoMapV(<<"a">> :> SliceV(<<Float64V("NaN"), Float64V("1.5")>>))
    /\ out = GoMapV(<<"a">> :> SliceV(<<StrV(<<"NaN">>), Float64V("1.5")>>))
    /\ again = out

-----------------------------------------------------------------------------
(* C8 *)

\* w is v with every float64 leaf NaN, +Inf, -Inf replaced by its name, the
\* mappings (map[string]interface{}) keeping their keys and the sequences
\* ([]interface{}) their length and order, and every other leaf as it is
RECURSIVE IsImage(_, _)
IsImage(v, w) ==
    IF v.kind = "map"
    THEN /\ w.kind = "map"
         /\ DOMAIN w.val = DOMAIN v.val
         /\ \A k \in DOMAIN v.val : IsImage(v.val[k], w.val[k])
    ELSE IF v.kind = "slice"
    THEN /\ w.kind = "slice"
         /\ Len(w.val) = Len(v.val)
         /\ \A i \in 1..Len(v.val) : IsImage(v.val[i], w.val[i])
    ELSE IF v = Float64V("NaN") THEN w = StrV(<<"NaN">>)
    ELSE IF v = Float64V("+Inf") THEN w = StrV(<<"Infinity">>)
    ELSE IF v = Float64V("-Inf") THEN w = StrV(<<"-Infinity">>)
    ELSE w = v

-----------------------------------------------------------------------------
(* C9 *)

\* v holds a NaN or an infinite floating-point value at some depth
RECURSIVE HasNonFinite(_)
HasNonFinite(v) ==
    IF v.kind \in {"float64", "float32"} THEN v.val \in NonFinite
    ELSE IF v.kind \in {"map", "bson.M"}
    THEN \E k \in DOMAIN v.val : HasNonFinite(v.val[k])
    ELSE IF v.kind \in {"slice", "primitive.A"}
    THEN \E i \in 1..Len(v.val) : HasNonFinite(v.val[i])
    ELSE FALSE

\* C9: no row the document executor returns holds a NaN or an infinite
\* floating-point value, at any depth.
C9_ReturnedRowsAreFinite ==
    (db.Type = "mongodb" /\ pc = "done" /\ err = "") =>
        \A i \in 1..Len(returned) :
            \A k \in DOMAIN returned[i] : ~HasNonFinite(returned[i][k])

-----------------------------------------------------------------------------
(* C10 *)

\* C10: every value of every row ExecuteQuery returns, whichever the
\* backend, is the sanitizer's image of the value the driver decoded.
C10_EveryReturnedValueSanitized ==
    (pc = "done" /\ err = "") =>
        /\ Len(returned) = Len(raw)
        /\ \A i \in 1..Len(raw) :
              /\ DOMAIN returned[i] = DOMAIN raw[i]
              /\ \A k \in DOMAIN raw[i] :
                    returned[i][k] = sanitizeValue(PgValue(raw[i][k]))

-----------------------------------------------------------------------------
(* C11 *)

-----------------------------------------------------------------------------
(* C12 *)

\* the class of a parsed value
ClassOf(v) ==
    CASE v.kind = "string" -> "string"
      [] v.kind = "nil" -> "null"
      [] v.kind = "bson.M" -> "mapping"
      [] v.kind = "bson.D" -> "list"
      [] v.kind \in {"int64", "int32", "int"} -> "integer"
      [] v.kind \in {"float64", "float32"} -> "float"
      [] OTHER -> "other"

\* the class the rule gives a value text: quoted, nil, nested opener,
\* integer, floating point, and a raw string for what remains
ClassOfText(t) ==
    IF IsQuoted(t) THEN "string"
    ELSE IF t = <<"nil">> THEN "null"
    ELSE IF HasPrefix(t, BsonMOpen) THEN "mapping"
    ELSE IF HasPrefix(t, BsonDOpen) THEN "list"
    ELSE IF IsInt(t) THEN "integer"
    ELSE IF IsFloat(t) THEN "float"
    ELSE "string"

PlainKey(e) == \A i \in 1..Len(e.key) : e.key[i] \notin {":", ","}

\* C12: both routines give the value of an entry the class of the rule:
\* quoted -> string, nil -> null, nested mapping or list opener -> parsed
\* recursively, integer, floating point, any remaining text -> raw string.
C12_SameClassification ==
    (pc = "entry" /\ PlainKey(entry)) =>
        /\ asM # Pending =>
              /\ ~asM.err
              /\ ClassOf(asM.val.val[entry.key]) = ClassOfText(entry.value)
        /\ asD # Pending =>
              /\ ~asD.err
              /\ Len(asD.val.val) = 1
              /\ ClassOf(asD.val.val[1].Value) = ClassOfText(entry.value)

-----------------------------------------------------------------------------
(* C13 *)

\* C13: the entry is cut between its key and its value, wherever the key
\* holds a colon or a comma: each routine yields the key of the entry with
\* the value its own classification gives the value text of the entry.
C13_SplitAtFirstTopLevelSeparator ==
    pc = "entry" =>
        /\ asM # Pending =>
              asM = IF ValueM(entry.value).err THEN Fail
                    ELSE Ok(MapV(entry.key :> ValueM(entry.value).val))
        /\ asD # Pending =>
              asD = IF ValueD(entry.value).err THEN Fail
                    ELSE Ok(DocV(<<E(entry.key, ValueD(entry.value).val)>>))

-----------------------------------------------------------------------------
(* C14 *)

\* the text of the scenario: collection orders, operation find, a FILTER
\* block bson.M{"status": "active"} and no other block
ScenarioText(g) ==
    /\ g.coll = "orders" /\ g.op = "find" /\ g.filter = "status"
    /\ g.sort = "absent" /\ g.limit = "absent" /\ g.projection = "absent"
    /\ g.pipeline = "absent"

IsActive(doc) == <<"status">> \in DOMAIN doc /\ doc[<<"status">>] = StrV(<<"active">>)

RECURSIVE ActiveOnly(_)
ActiveOnly(docs) ==
    IF docs = <<>> THEN <<>>
    ELSE IF IsActive(Head(docs)) THEN <<Head(docs)>> \o ActiveOnly(Tail(docs))
    ELSE ActiveOnly(Tail(docs))

\* C14: the scenario text parses to collection orders and filter
\* {status: "active"}, and when its find is answered the rows returned are
\* exactly the documents of the collection whose status equals "active".
C14_FilterSelectsActiveOnly ==
    (Parsed /\ ScenarioText(gen)) =>
        /\ desc.err = ""
        /\ desc.collection = <<"orders">>
        /\ desc.operation = <<"find">>
        /\ desc.filter = MapV(<<"status">> :> StrV(<<"active">>))
        /\ (pc = "done" /\ err = "") =>
              /\ issued[1].collection = <<"orders">>
              /\ returned = ActiveOnly(store)
              /\ \A i \in 1..Len(returned) : IsActive(returned[i])

\* the scenario text has been executed against a collection holding
\* documents with and without status "active", and two of them are returned
C14_Witness ==
    /\ Parsed /\ ScenarioText(gen) /\ pc = "done" /\ err = ""
    /\ Len(store) = 6 /\ Len(returned) = 2
    /\ \E i \in 1..Len(store) : ~IsActive(store[i])

-----------------------------------------------------------------------------
(* C15 *)

\* the names joined by '.'
RECURSIVE JoinDots(_)
JoinDots(names) ==
    IF names = <<>> THEN <<>>
    ELSE IF Len(names) = 1 THEN names[1]
    ELSE names[1] \o <<".">> \o JoinDots(Tail(names))

\* every column of the list, and of the nested lists, has the path of its
\* ancestors' names and its own
RECURSIVE PathsFollowNames(_, _)
PathsFollowNames(columns, ancestors) ==
    \A i \in 1..Len(columns) :
        /\ columns[i].Path = JoinDots(Append(ancestors, columns[i].Name))
        /\ PathsFollowNames(columns[i].Fields, Append(ancestors, columns[i].Name))

\* C15: in every schema a fetch returns, relational or document, the path
\* of each column is its ancestors' names and its own joined by '.', so that
\* a root-level column has its name as path.
C15_PathIsDottedAncestry ==
    \A f \in 1..Len(fetches) :
        \A t \in 1..Len(fetches[f].schema) :
            PathsFollowNames(fetches[f].schema[t].Columns, <<>>)

-----------------------------------------------------------------------------
(* C18 *)

\* C18: two fetches against the same unchanged backend that both succeed
\* return the same tables in the same order with the same columns in the
\* same order at every level.
C18_FetchOrderIsDeterministic ==
    (Len(fetches) = 2 /\ fetches[1].err = "" /\ fetches[2].err = "") =>
        fetches[1].schema = fetches[2].schema

-----------------------------------------------------------------------------
(* C19 *)

\* the answer without surrounding whitespace, without a leading fence (with
\* or without the dialect name sql) and without a trailing fence
Unfenced(t) ==
    LET a == TrimSpace(t)
        b == IF HasPrefix(a, <<Fence, "sql">>) THEN TrimPrefix(a, <<Fence, "sql">>)
             ELSE TrimPrefix(a, <<Fence>>)
    IN  TrimSpace(TrimSuffix(b, <<Fence>>))

\* C19: for a relational descriptor the text handed to the executor is the
\* provider's answer without surrounding whitespace and fence markers.
C19_FencesAreTrimmed ==
    \A i \in 1..Len(handed) :
        handed[i].db.Type = "postgresql" => handed[i].text = Unfenced(answer)

-----------------------------------------------------------------------------
(* C20 *)

\* C20: whatever is generated or executed is for a descriptor owned by the
\* user of the request; a request naming another user's database is
\* answered before a query is generated or executed.
C20_OnlyOwnDatabase ==
    /\ \A i \in 1..Len(handed) : handed[i].db.UserID = req.user
    /\ (found # NoDatabase /\ found.UserID # req.user) =>
          /\ query.GeneratedSQL = <<>>
          /\ pc \notin {"handler.generate", "handler.execute", "handler.update"}


-----------------------------------------------------------------------------
(* C16 *)
\* C16: whichever way a connection test, schema fetch, statistics fetch or
\* query execution ends (success, an error of any call, or the deadline),
\* no connection, client, row set or cursor it opened is still open after
\* it has returned; and while it runs, whatever is open is either released
\* by a deferred call or by the helper that opened it (the column rows).
C16_EverythingIsReleased ==
    /\ pc = "op.returned" => live = {}
    /\ pc \in {"op.run", "op.wait", "op.return"} =>
          live \subseteq deferred \cup {"columns"}

\* An execution whose cursor or row set was open when the deadline passed
\* has returned an error.
C16_Witness ==
    /\ pc = "op.returned"
    /\ running.kind = "execute"
    /\ expired
    /\ outcome = "error"
    /\ Cardinality(deferred) = 2

-----------------------------------------------------------------------------
(* C17 *)
\* C17: every call that waits for the database is given a context with a
\* deadline, the connection test that precedes the schema fetch included.
C17_EveryCallHasDeadline ==
    pc = "op.wait" /\ CurrentCall.remote => CurrentCall.bound

-----------------------------------------------------------------------------
(* C22 *)
\* C22: the limit of a parsed find operation is never negative, whatever
\* the LIMIT block holds.
C22_LimitIsNonNegative ==
    desc.operation = <<"find">> /\ desc.limit.set => desc.limit.val.val >= 0

-----------------------------------------------------------------------------
(* C26 *)

ParseErrors ==
    {"missing collection name in generated code",
     "missing operation type in generated code",
     "unsupported MongoDB operation"}

\* C26: for a document backend the text is parsed only after the client
\* has connected and pinged: while the connection is not open nothing has
\* been parsed, a failed connection ends with the connection error and an
\* unparsed text, and a parse error is returned only once a connection was
\* opened (and released again).
C26_ParsedOnlyAfterConnect ==
    /\ pc = "mongo.connect" => desc = NoDesc
    /\ pc = "mongo.parse" => conn = "open"
    /\ err \in {"failed to create MongoDB client", "failed to connect to MongoDB"}
          => desc = NoDesc
    /\ err \in ParseErrors => pc = "done" /\ conn = "closed"

\* A text with a missing line was run against an unreachable backend.
C26_Witness ==
    /\ pc = "done"
    /\ err = "failed to connect to MongoDB"
    /\ ParseMongoCode(code).err \in
          {"missing collection name in generated code",
           "missing operation type in generated code"}

-----------------------------------------------------------------------------
(* C28 *)

\* the FILTER block is present and not empty, and is not a mapping literal
\* that parses
UnusableFilter(c) ==
    LET m == FindBlock(c, "*FILTER_START", "*FILTER_END")
        filterContent == TrimSpace(m.text)
        inner == TrimSuffix(TrimPrefix(filterContent, BsonMOpen), Close)
    IN  /\ m.found
        /\ filterContent # <<>>
        /\ \/ ~HasPrefix(filterContent, BsonMOpen)
           \/ inner # <<>> /\ parseBSONM(inner).err

\* the LIMIT block is absent or its content is not an integer
NoUsableLimit(c) ==
    LET m == FindBlock(c, "*LIMIT_START", "*LIMIT_END")
    IN  ~m.found \/ ~IsInt(TrimSpace(m.text))

\* C28: a find whose FILTER block is present, not empty and unusable is
\* issued with the empty filter and, when the backend answers, returns the
\* documents of the collection without an error; a find without a parseable
\* LIMIT block is issued without a limit; the default limit appears only in
\* an aggregate whose pipeline is empty.
C28_UnusableBlocksAreDropped ==
    pc = "done" /\ Len(issued) = 1 /\ issued[1].op # "sql" =>
        /\ issued[1].op = "find" /\ UnusableFilter(code) =>
              /\ issued[1].filter = MapV(EmptyMap)
              /\ err \notin ParseErrors
              /\ store # <<>> =>
                    /\ err = ""
                    /\ Len(returned) = Len(Limited(store, issued[1].limit))
        /\ issued[1].op = "find" /\ NoUsableLimit(code) => ~issued[1].limit.set
        /\ issued[1].op = "find" => issued[1].pipeline = <<>>
        /\ issued[1].pipeline = DefaultPipeline =>
              issued[1].op = "aggregate" /\ desc.pipeline = <<>>

\* A find with an unwrapped filter and a limit that is not an integer has
\* returned every document of a collection, among them one the filter text
\* would not select.
C28_Witness ==
    /\ pc = "done"
    /\ err = ""
    /\ Len(issued) = 1
    /\ issued[1].op = "find"
    /\ gen.filter = "bare"
    /\ gen.limit = "word"
    /\ UnusableFilter(code)
    /\ NoUsableLimit(code)
    /\ Len(store) > 1
    /\ Len(returned) = Len(store)

-----------------------------------------------------------------------------
(* C27 *)
\* C27: an integer literal in an entry of an ordered-pair list is stored
\* with the value written in the text, whether or not that value is inside
\* the signed 32-bit range.
C27_IntegerStoredAsWritten ==
    (pc = "entry" /\ PlainKey(entry) /\ IsInt(entry.value) /\ asD # Pending) =>
        /\ ~asD.err
        /\ Len(asD.val.val) = 1
        /\ IsInteger(asD.val.val[1].Value)
        /\ LimbsOfInt(asD.val.val[1].Value.val) = Int64Limbs(entry.value[1])

-----------------------------------------------------------------------------
(* C21 *)
\* C21: once the connection test has passed, a failed schema fetch or a
\* failed statistics fetch does not fail the create, refresh or
\* test-connection request: the request is answered with success (unless
\* the store refuses the record), the descriptor answered carries the empty
\* schema in place of the schema that could not be fetched, and its
\* statistics are absent or have the size "Unknown".
C21_FetchFailuresAreAbsorbed ==
    (pc = "db.done" /\ steps.test = "ok"
        /\ (steps.schema = "err" \/ steps.stats = "err")) =>
        /\ steps.save # "err" => reply.status \in {200, 201}
        /\ dreq.handler = "test" =>
              /\ steps.schema = "err" => reply.table_count = -1
              /\ steps.stats = "err" => reply.database_size \in {"", "Unknown"}
        /\ dreq.handler # "test" =>
              /\ steps.schema = "err" => rec.Schema = EmptySchema
              /\ steps.stats = "err" =>
                    ~rec.Stats.set \/ rec.Stats.Size = "Unknown"

-----------------------------------------------------------------------------
(* C29 *)
\* C29: on a get request with refresh: a failed connection test leaves the
\* stored record as it was; after a passed test the record is written
\* back, with the empty schema when the schema fetch failed and with the
\* statistics it had when the statistics fetch failed.
C29_RefreshFrame ==
    [][(dreq.handler = "get" /\ dreq.refresh) =>
          /\ (pc = "db.test" /\ steps'.test = "err") => saved' = saved
          /\ (pc = "db.save" /\ steps'.save = "ok") =>
                /\ steps.schema = "err" => saved'.Schema = EmptySchema
                /\ steps.stats = "err" => saved'.Stats = saved.Stats
                /\ saved'.LastConnected
          /\ pc # "db.save" => saved' = saved
          /\ (pc = "db.stats" /\ steps.test = "ok") => pc' = "db.save"]_vars

\* A refresh whose schema fetch and statistics fetch both failed has
\* replaced a stored schema of one table by the empty schema and kept the
\* stored statistics.
C29_Witness ==
    /\ pc = "db.done"
    /\ dreq.handler = "get"
    /\ dreq.refresh
    /\ steps = [test |-> "ok", schema |-> "err", stats |-> "err", save |-> "ok"]
    /\ saved.Schema = EmptySchema
    /\ saved.Stats = StatsOf(1, "8 MB")
    /\ reply.status = 200

-----------------------------------------------------------------------------
(* C23 *)
\* C23: after a rerun that succeeded, with no update of the record beside
\* it, the stored record has the status completed, the results of this run
\* and no error, whatever error or results it carried before and also when
\* this run returned no rows.
C23_RerunReplacesOutcome ==
    (task = "rerun" /\ pc.run = "done" /\ answers.run = 200
        /\ pc.upd = "start") =>
        /\ kept.Status = "completed"
        /\ kept.Results = rq.Results
        /\ kept.Error = ""

-----------------------------------------------------------------------------
(* C24 *)
\* C24: a create-query or rerun request that has stored or loaded its
\* record does not return, with no update of the record beside it, while
\* the stored status is pending or running.
C24_NoRequestLeavesRecordRunning ==
    (pc.run = "done" /\ rq.exists /\ pc.upd = "start") =>
        kept.Status \in {"completed", "failed"}

-----------------------------------------------------------------------------
(* C25 *)
\* C25: what the rerun stored last (status, results, execution time, error)
\* is still stored when the rerun and an update of the name or text that
\* ran beside it have both returned.
C25_UpdateKeepsOutcome ==
    (task = "rerun" /\ pc.run = "done" /\ written.exists) =>
        /\ kept.Status = written.Status
        /\ kept.Results = written.Results
        /\ kept.ExecutionTime = written.ExecutionTime
        /\ kept.Error = written.Error

-----------------------------------------------------------------------------
(* C30 *)
\* C30: whatever the interleaving of the signup requests, the users
\* collection holds at most one document for an email, and of two requests
\* with the same email at most one is answered with success.
C30_OneAccountPerEmail ==
    /\ \A i, j \in 1..Len(accounts) : accounts[i] = accounts[j] => i = j
    /\ \A p, r \in 1..MaxSignups :
          (signups[p].email = signups[r].email
              /\ signups[p].status = 201 /\ signups[r].status = 201) => p = r
=============================================================================
